---- MODULE Spec2Model ----
(***************************************************************************)
(* FondosdePensiones: the download pipelines of the SPensiones scraper.    *)
(*                                                                         *)
(*   prog = "cuadros"  descargar_y_guardar_cuadros (cuadros_utils.py): the *)
(*                     sequential fetch / validate / retry loop over the   *)
(*                     links of one period, then guardar_html_y_csv        *)
(*                     (io_utils.py) for every link that validated.        *)
(*   prog = "precios"  descargar_precios_if_anio (precios_if.py): one job  *)
(*                     per date on a ThreadPoolExecutor, the workers       *)
(*                     _descargar_dia_worker / _persistir_y_extraer, and   *)
(*                     the orchestrator draining as_completed().           *)
(*                                                                         *)
(* Texts are sequences of one-character tokens.  A document is a head (the *)
(* characters that matter to the code) followed by `pad` filler characters *)
(* "x", so that the validator's threshold of 500 characters keeps its      *)
(* value while the heads stay short.                                       *)
(***************************************************************************)
EXTENDS Integers, Sequences, FiniteSets, TLC

(***************************************************************************)
(* Bounds of the model.                                                    *)
(***************************************************************************)
MaxLinks == 2

MaxFechas == 3

MaxWorkers == 2

\* The longest text given to _transformar_solo_numeros_en_texto, the most
\* thousands groups and decimals of a number, the most elements of a document.
MaxTexto == 5

MaxGrupos == 2

MaxDecimales == 2

MaxElementos == 2

\* The longest title given to limpiar_nombre.
MaxTitulo == 4

\* The most CSV files one download persists for a period.
MaxCsv == 2

(***************************************************************************)
(* Program constants.                                                      *)
(***************************************************************************)
MAX_REINTENTOS == 3

MinLen == 500

\* None, as a value that compares with every document of the model.
None == [none |-> TRUE]

\* resp.apparent_encoding is None
SinEncoding == "None"

(***************************************************************************)
(* Characters and bytes.                                                   *)
(***************************************************************************)
Min(a, b) == IF a < b THEN a ELSE b

\* str.lower() on the characters of the model's alphabet.
Minusculas ==
    ("T" :> "t") @@ ("A" :> "a") @@ ("B" :> "b") @@ ("L" :> "l") @@
    ("E" :> "e") @@ ("R" :> "r") @@ ("P" :> "p") @@ ("Acirc" :> "acirc")

lower_char(c) == IF c \in DOMAIN Minusculas THEN Minusculas[c] ELSE c

lower(s) == [k \in 1..Len(s) |-> lower_char(s[k])]

\* Python's `m in s` on strings.
Contiene(s, m) ==
    \E k \in 0..(Len(s) - Len(m)) : SubSeq(s, k + 1, k + Len(m)) = m

\* The bytes >= 0x80 of the model; every other token is the ASCII byte of
\* the character it names.
BytesAltos == {"xC2", "xC3", "x82", "xA0", "xE9"}

\* The two-byte UTF-8 sequences of the model.
Utf8Pares ==
    (<<"xC3", "x82">> :> "Acirc") @@ (<<"xC2", "xA0">> :> "nbsp") @@
    (<<"xC3", "xA0">> :> "agrave")

RECURSIVE utf8_valido(_)
utf8_valido(b) ==
    IF b = <<>> THEN TRUE
    ELSE IF Head(b) \notin BytesAltos THEN utf8_valido(Tail(b))
    ELSE /\ Len(b) >= 2
         /\ <<b[1], b[2]>> \in DOMAIN Utf8Pares
         /\ utf8_valido(Tail(Tail(b)))

RECURSIVE utf8_decode(_)
utf8_decode(b) ==
    IF b = <<>> THEN <<>>
    ELSE IF Head(b) \notin BytesAltos THEN <<Head(b)>> \o utf8_decode(Tail(b))
    ELSE <<Utf8Pares[<<b[1], b[2]>>]>> \o utf8_decode(Tail(Tail(b)))

\* latin-1 maps every byte to the character of the same code point.
Latin1 ==
    ("xC2" :> "Acirc") @@ ("xC3" :> "Atilde") @@ ("x82" :> "c82") @@
    ("xA0" :> "nbsp") @@ ("xE9" :> "eacute")

latin1_decode(b) ==
    [k \in 1..Len(b) |-> IF b[k] \in BytesAltos THEN Latin1[b[k]] ELSE b[k]]

\* bytes.decode("ascii", errors="replace"): U+FFFD for every byte >= 0x80.
ascii_replace_decode(b) ==
    [k \in 1..Len(b) |-> IF b[k] \in BytesAltos THEN "FFFD" ELSE b[k]]

\* The codecs Python knows among the apparent encodings of the model
\* (after .lower().strip()).
CodecsConocidos == {"ascii", "iso-8859-1"}

\* (resp.apparent_encoding or "").lower().strip()
enc_normalizado(enc) ==
    IF enc = SinEncoding THEN ""
    ELSE IF enc = "ISO-8859-1" THEN "iso-8859-1"
    ELSE IF enc = "Ascii" THEN "ascii"
    ELSE enc

\* What a call gives: an exception, or a text.
Lanza == [raise |-> TRUE, texto |-> <<>>]

Devuelve(t) == [raise |-> FALSE, texto |-> t]

\* raw.decode(enc, errors="replace"): LookupError for a codec Python does not
\* know, no exception for a byte the codec cannot decode.
codec_decode(b, enc) ==
    IF enc \notin CodecsConocidos THEN Lanza
    ELSE IF enc = "ascii" THEN Devuelve(ascii_replace_decode(b))
    ELSE Devuelve(latin1_decode(b))

\* decode_html without the try around raw.decode(enc, errors="replace").
decode_html_sinExcept(content, apparent_encoding) ==
    IF utf8_valido(content) THEN Devuelve(utf8_decode(content))
    ELSE LET enc == enc_normalizado(apparent_encoding)
         IN IF enc # "" THEN codec_decode(content, enc)
            ELSE Devuelve(latin1_decode(content))

\* decode_html on the head of a body; the filler bytes are ASCII and decode
\* to themselves under every codec.
decode_html(content, apparent_encoding) ==
    IF utf8_valido(content) THEN Devuelve(utf8_decode(content))
    ELSE LET enc == enc_normalizado(apparent_encoding)
             d   == codec_decode(content, enc)
         IN IF enc # "" /\ ~d.raise THEN d
            ELSE \* no encoding, or the exception swallowed: the latin1 fallback
                 Devuelve(latin1_decode(content))

\* str.replace(old, new) for a one-character `old`; new is a text.
RECURSIVE replace_char(_, _, _)
replace_char(s, old, new) ==
    IF s = <<>> THEN <<>>
    ELSE (IF Head(s) = old THEN new ELSE <<Head(s)>>)
         \o replace_char(Tail(s), old, new)

\* .replace("\xa0", " ").replace("Â", "")
reemplazos(s) == replace_char(replace_char(s, "nbsp", <<" ">>), "Acirc", <<>>)

(***************************************************************************)
(* Documents: [head, pad, h3, t2, t1].  head ++ "x"*pad is the text; h3 is *)
(* what BeautifulSoup finds as the first <h3>: [hay, texto]; t2 and t1 are *)
(* what pandas.read_html gives on the transformed document with            *)
(* header=[0,1] and with header=0: [raise, tablas].                        *)
(***************************************************************************)
LenDoc(d) == Len(d.head) + d.pad

html_es_valido_sinLower(html) ==
    IF html = None \/ LenDoc(html) = 0 THEN FALSE
    ELSE IF LenDoc(html) < MinLen THEN FALSE
    ELSE IF ~Contiene(html.head, <<"<", "t", "a", "b", "l", "e">>) THEN FALSE
    ELSE IF ~Contiene(html.head, <<"<", "t", "r">>) THEN FALSE
    ELSE TRUE

html_es_valido(html) ==
    IF html = None \/ LenDoc(html) = 0 THEN FALSE
    ELSE IF LenDoc(html) < MinLen THEN FALSE
    ELSE LET html_lower == lower(html.head)
         IN IF ~Contiene(html_lower, <<"<", "t", "a", "b", "l", "e">>) THEN FALSE
            ELSE IF ~Contiene(html_lower, <<"<", "t", "r">>) THEN FALSE
            ELSE TRUE

(***************************************************************************)
(* html_utils.py: extraer_titulo and limpiar_nombre.                       *)
(***************************************************************************)
extraer_titulo(html, fallback) == IF html.h3.hay THEN html.h3.texto ELSE fallback

Espacios == {" ", "tab"}

WordChars ==
    {"a", "b", "c", "i", "m", "o", "p", "s", "t", "v", "u", "d", "r",
     "A", "B", "0", "1", "2", "3", "4", "5", "6", "7", "8", "9", "_"}

\* str.strip(chars)
RECURSIVE lstrip(_, _)
lstrip(s, chars) ==
    IF s # <<>> /\ Head(s) \in chars THEN lstrip(Tail(s), chars) ELSE s

RECURSIVE rstrip(_, _)
rstrip(s, chars) ==
    IF s # <<>> /\ s[Len(s)] \in chars
    THEN rstrip(SubSeq(s, 1, Len(s) - 1), chars) ELSE s

strip(s, chars) == rstrip(lstrip(s, chars), chars)

\* html.unescape on the one entity of the model, "&amp;" (its ";" optional).
RECURSIVE unescape(_)
unescape(s) ==
    IF s = <<>> THEN <<>>
    ELSE IF Len(s) >= 4 /\ SubSeq(s, 1, 4) = <<"&", "a", "m", "p">>
         THEN <<"&">> \o unescape(IF Len(s) >= 5 /\ s[5] = ";"
                                   THEN SubSeq(s, 6, Len(s))
                                   ELSE SubSeq(s, 5, Len(s)))
         ELSE <<Head(s)>> \o unescape(Tail(s))

\* unicodedata.normalize("NFKD", c) for the non-ASCII characters of the model.
Nfkd ==
    ("iacute" :> <<"i", "comb_acute">>) @@ ("nbsp" :> <<" ">>) @@
    ("iquest" :> <<"iquest">>) @@ ("care_of" :> <<"a", "/", "c">>) @@
    ("acute" :> <<" ", "comb_acute">>)

\* The characters that .encode("ascii", "ignore") drops.
NoAscii == {"iacute", "nbsp", "iquest", "comb_acute", "care_of", "acute"}

RECURSIVE nfkd(_)
nfkd(s) ==
    IF s = <<>> THEN <<>>
    ELSE (IF Head(s) \in DOMAIN Nfkd THEN Nfkd[Head(s)] ELSE <<Head(s)>>)
         \o nfkd(Tail(s))

\* The characters of s that are in keep (re.sub(r"[^keep]", "", s)).
RECURSIVE filtrar(_, _)
filtrar(s, keep) ==
    IF s = <<>> THEN <<>>
    ELSE (IF Head(s) \in keep THEN <<Head(s)>> ELSE <<>>) \o filtrar(Tail(s), keep)

\* s without the characters of drop.
RECURSIVE quitar(_, _)
quitar(s, drop) ==
    IF s = <<>> THEN <<>>
    ELSE (IF Head(s) \in drop THEN <<>> ELSE <<Head(s)>>) \o quitar(Tail(s), drop)

\* re.sub(r"[c]+", rep, s): every maximal run of characters of `chars`
\* becomes the one character rep.
RECURSIVE sub_runs_porCaracter(_, _, _)
sub_runs_porCaracter(s, chars, rep) ==
    IF s = <<>> THEN <<>>
    ELSE <<IF Head(s) \in chars THEN rep ELSE Head(s)>>
         \o sub_runs_porCaracter(Tail(s), chars, rep)

RECURSIVE sub_runs(_, _, _)
sub_runs(s, chars, rep) ==
    IF s = <<>> THEN <<>>
    ELSE IF Head(s) \in chars
         THEN <<rep>> \o sub_runs(lstrip(s, chars), chars, rep)
         ELSE <<Head(s)>> \o sub_runs(Tail(s), chars, rep)

MaxLenNombre == 180

limpiar_nombre_sinStrip(texto, max_len) ==
    LET t1 == strip(unescape(texto), Espacios \cup {"nbsp"})
        t2 == nfkd(t1)
        t3 == quitar(t2, NoAscii)
        t4 == filtrar(t3, WordChars \cup Espacios \cup {"-"})
        t5 == sub_runs(t4, Espacios, "_")
        t6 == sub_runs(t5, {"_"}, "_")
        t7 == lower(t6)
    IN SubSeq(t7, 1, Min(Len(t7), max_len))

limpiar_nombre(texto, max_len) ==
    LET t1 == strip(unescape(texto), Espacios \cup {"nbsp"})
        t2 == nfkd(t1)
        t3 == quitar(t2, NoAscii)
        t4 == filtrar(t3, WordChars \cup Espacios \cup {"-"})
        t5 == sub_runs(t4, Espacios, "_")
        t6 == sub_runs(t5, {"_"}, "_")
        t7 == lower(t6)
        t8 == SubSeq(t7, 1, Min(Len(t7), max_len))
    IN strip(t8, {"_"})

\* f"cuadro_{i:02d}" for i < 10.
Digitos == <<"1", "2", "3", "4", "5", "6", "7", "8", "9">>

cuadro_fallback(i) == <<"c", "u", "a", "d", "r", "o", "_", "0", Digitos[i]>>

(***************************************************************************)
(* io_utils.py: _RE_CH_NUM, _to_float_token,                               *)
(* _transformar_solo_numeros_en_texto and _html_transformar_solo_numeros.  *)
(* Offsets count the characters before a position: offset p lies between   *)
(* s[p] and s[p + 1].                                                      *)
(***************************************************************************)
\* \d and \w
EsDigito(c) == c \in {"0", "1", "2", "3", "4", "5", "6", "7", "8", "9"}

EsPalabra(c) == EsDigito(c) \/ c \in WordChars

\* \b at offset p
Borde(s, p) ==
    LET w(q) == q >= 1 /\ q <= Len(s) /\ EsPalabra(s[q])
    IN w(p) # w(p + 1)

\* The digits that follow offset p.
RECURSIVE nDig(_, _)
nDig(s, p) ==
    IF p + 1 <= Len(s) /\ EsDigito(s[p + 1]) THEN 1 + nDig(s, p + 1) ELSE 0

\* \.\d{3} at offset p
EsGrupo(s, p) ==
    /\ p + 4 <= Len(s)
    /\ s[p + 1] = "."
    /\ \A q \in (p + 2)..(p + 4) : EsDigito(s[q])

\* The groups (?:\.\d{3}) that follow offset p one after another.
RECURSIVE nGrupos(_, _)
nGrupos(s, p) == IF EsGrupo(s, p) THEN 1 + nGrupos(s, p + 4) ELSE 0

\* The engine tries the longer repetition first and backtracks from the
\* innermost: of two ways to match, the one it takes is the greater in
\* lexicographic order of the repetition counts.
Antes3(c, d) ==
    \/ c[1] > d[1]
    \/ c[1] = d[1] /\ c[2] > d[2]
    \/ c[1] = d[1] /\ c[2] = d[2] /\ c[3] >= d[3]

\* ,\d+\b at offset q: the numbers of digits it can match
Decimales(s, q) ==
    IF q + 1 <= Len(s) /\ s[q + 1] = ","
    THEN {m \in 1..nDig(s, q + 1) : Borde(s, q + 1 + m)}
    ELSE {}

\* (?:,\d+)?\b at offset q: the decimals matched (0: the optional part is
\* left out)
DecimalesOpcionales(s, q) ==
    Decimales(s, q) \cup (IF Borde(s, q) THEN {0} ELSE {})

\* \b\d{1,3}(?:\.\d{3})*(?:,\d+)?\b at offset p: the ways to match, as
\* <<digits, groups, decimals>>
Alt1(s, p) ==
    UNION {UNION {{<<n, k, m>> : m \in DecimalesOpcionales(s, p + n + 4 * k)} :
                    k \in 0..nGrupos(s, p + n)} :
             n \in 1..Min(3, nDig(s, p))}

FinAlt1(p, c) == p + c[1] + 4 * c[2] + (IF c[3] = 0 THEN 0 ELSE 1 + c[3])

\* \b\d+(?:,\d+)\b at offset p, as <<digits, 0, decimals>>
Alt2(s, p) ==
    UNION {{<<n, 0, m>> : m \in Decimales(s, p + n)} : n \in 1..nDig(s, p)}

\* \b\d+\b at offset p, as <<digits, 0, 0>>
Alt3(s, p) == {<<n, 0, 0>> : n \in {a \in 1..nDig(s, p) : Borde(s, p + a)}}

Primero(C) == CHOOSE c \in C : \A d \in C : Antes3(c, d)

\* _RE_CH_NUM matched at offset p: the offset where the match ends, p when
\* there is no match at p.  The alternatives are tried in order.
RE_CH_NUM(s, p) ==
    IF ~Borde(s, p) \/ nDig(s, p) = 0 THEN p
    ELSE IF Alt1(s, p) # {} THEN FinAlt1(p, Primero(Alt1(s, p)))
    ELSE IF Alt2(s, p) # {} THEN FinAlt1(p, Primero(Alt2(s, p)))
    ELSE IF Alt3(s, p) # {} THEN FinAlt1(p, Primero(Alt3(s, p)))
    ELSE p

\* _to_float_token without .replace(",", ".").
to_float_token_sinComa(token) ==
    replace_char(strip(token, Espacios), ".", <<>>)

\* t = token.strip(); t.replace(".", "").replace(",", ".")
to_float_token(token) ==
    replace_char(replace_char(strip(token, Espacios), ".", <<>>), ",", <<".">>)

\* _RE_CH_NUM.sub(_repl, text) from offset p on: the leftmost match is
\* replaced and the search goes on where it ended.
RECURSIVE sub_desde(_, _)
sub_desde(text, p) ==
    IF p >= Len(text) THEN <<>>
    ELSE LET fin == RE_CH_NUM(text, p)
         IN IF fin > p
            THEN to_float_token(SubSeq(text, p + 1, fin)) \o sub_desde(text, fin)
            ELSE <<text[p + 1]>> \o sub_desde(text, p + 1)

transformar_solo_numeros_en_texto(text) == sub_desde(text, 0)

\* BeautifulSoup(html, "html.parser") in document order: a node is
\* [clase, name, attrs, texto].  For a Tag, name is its name and attrs its
\* attribute values; for a string (NavigableString, Comment) name is the
\* name of its parent and texto its text.
Tag(name, attrs) ==
    [clase |-> "Tag", name |-> name, attrs |-> attrs, texto |-> <<>>]

Cadena(clase, padre, texto) ==
    [clase |-> clase, name |-> padre, attrs |-> <<>>, texto |-> texto]

\* The loop's body applied to every node, tags and their attribute values
\* included.
transformar_nodo_todo(node) ==
    [node EXCEPT !.attrs = [k \in 1..Len(node.attrs) |->
                               transformar_solo_numeros_en_texto(node.attrs[k])],
                 !.texto = transformar_solo_numeros_en_texto(node.texto)]

\* The body of `for node in soup.find_all(string=True)`; find_all(string=True)
\* gives no Tag.  node.replace_with(nuevo) puts a NavigableString in the
\* place of the node.
transformar_nodo(node) ==
    IF node.clase = "Tag" THEN node
    ELSE IF node.name \in {"script", "style"} THEN node
    ELSE IF strip(node.texto, Espacios) = <<>> THEN node
    ELSE LET nuevo == transformar_solo_numeros_en_texto(node.texto)
         IN IF nuevo # node.texto
            THEN Cadena("NavigableString", node.name, nuevo)
            ELSE node

\* _html_transformar_solo_numeros, on the parsed document
html_transformar_solo_numeros(soup) ==
    [j \in 1..Len(soup) |-> transformar_nodo(soup[j])]

(***************************************************************************)
(* io_utils.py: guardar_html_y_csv.  A table is [cols, filas]; a cell is a *)
(* token.                                                                  *)
(***************************************************************************)
Numericos == {"1234.56", "12345"}

\* pd.to_numeric(..., errors="coerce") on one cell
to_numeric(celda) == IF celda \in Numericos THEN celda ELSE "NaN"

\* The conversion loop over df.columns instead of df.columns[1:].
convertir_columnas_todas(df) ==
    [cols  |-> df.cols,
     filas |-> [r \in 1..Len(df.filas) |->
                  [c \in 1..Len(df.filas[r]) |-> to_numeric(df.filas[r][c])]]]

\* for col in df.columns[1:]: df[col] = pd.to_numeric(df[col], errors="coerce")
convertir_columnas(df) ==
    [cols  |-> df.cols,
     filas |-> [r \in 1..Len(df.filas) |->
                  [c \in 1..Len(df.filas[r]) |->
                     IF c = 1 THEN df.filas[r][c]
                     ELSE to_numeric(df.filas[r][c])]]]

\* try: read_html(header=[0, 1])  except Exception: read_html(header=0)
leer_tablas(html) == IF ~html.t2.raise THEN html.t2 ELSE html.t1

\* What makes a file system call fail, for one call of guardar_html_y_csv.
Fallos == {"ninguno", "makedirs", "open", "write", "to_csv"}

\* The try block that follows the writing of the raw file, without its
\* except clause: an exception of the parser or of to_csv leaves it.
procesar_tabla_sinExcept(html, nombre, fallo, csvs) ==
    LET tablas == leer_tablas(html)
        nada   == [csvs |-> csvs, escrito |-> FALSE, raise |-> FALSE]
    IN IF tablas.raise \/ (tablas.tablas # <<>> /\ fallo = "to_csv")
       THEN [csvs |-> csvs, escrito |-> FALSE, raise |-> TRUE]
       ELSE IF tablas.tablas = <<>> THEN nada
       ELSE [csvs |-> (nombre :> [tabla |-> convertir_columnas(tablas.tablas[1]),
                                  df    |-> tablas.tablas[1],
                                  de    |-> html.de]) @@ csvs,
             escrito |-> TRUE, raise |-> FALSE]

\* The try block that follows the writing of the raw file: the CSV files
\* after it, whether one was written, and whether an exception leaves it.
\* A CSV file is [tabla, df, de]: the table written, the table selected
\* (df = tablas[0].copy()) and the link it comes from.
procesar_tabla(html, nombre, fallo, csvs) ==
    LET tablas == leer_tablas(html)
        nada   == [csvs |-> csvs, escrito |-> FALSE, raise |-> FALSE]
    IN IF tablas.raise THEN nada              \* except Exception: logger.error
       ELSE IF tablas.tablas = <<>> THEN nada \* if not tablas: return
       ELSE IF fallo = "to_csv" THEN nada     \* OSError, caught as well
       ELSE [csvs |-> (nombre :> [tabla |-> convertir_columnas(tablas.tablas[1]),
                                  df    |-> tablas.tablas[1],
                                  de    |-> html.de]) @@ csvs,
             escrito |-> TRUE, raise |-> FALSE]

\* open(html_path, "a"): the writing starts after what the file holds.
open_a(htmls, nombre) ==
    IF nombre \in DOMAIN htmls THEN htmls[nombre].desde + 1 ELSE 0

\* open(html_path, "w", encoding="utf-8"): the file is created or truncated;
\* the writing starts at position 0.
open_w(htmls, nombre) == 0

\* guardar_html_y_csv(html, nombre, html_dir, csv_dir) on the files htmls and
\* csvs: the files after it, and whether it raised.  A raw file is
\* [html, completo, desde]: the text written, whether the write completed,
\* and how many earlier writes the file still holds before that text.
guardar_html_y_csv(html, nombre, fallo, htmls, csvs) ==
    IF fallo \in {"makedirs", "open"}
    THEN [htmls |-> htmls, csvs |-> csvs, raise |-> TRUE,
          html_escrito |-> FALSE, csv_escrito |-> FALSE]
    ELSE IF fallo = "write"
    THEN [htmls |-> (nombre :> [html |-> html, completo |-> FALSE,
                                desde |-> open_w(htmls, nombre)]) @@ htmls,
          csvs  |-> csvs, raise |-> TRUE,
          html_escrito |-> TRUE, csv_escrito |-> FALSE]
    ELSE LET c == procesar_tabla(html, nombre, fallo, csvs)
         IN [htmls |-> (nombre :> [html |-> html, completo |-> TRUE,
                                   desde |-> open_w(htmls, nombre)]) @@ htmls,
             csvs  |-> c.csvs, raise |-> c.raise,
             html_escrito |-> TRUE, csv_escrito |-> c.escrito]

(***************************************************************************)
(* What the server can answer to one GET.                                  *)
(***************************************************************************)
TABLE_TR == <<"<", "t", "a", "b", "l", "e", ">", "<", "t", "r", ">">>

TABLE_TR_MAYUS == <<"<", "T", "A", "B", "L", "E", ">", "<", "T", "R", ">">>

SOLO_TABLE == <<"<", "t", "a", "b", "l", "e", ">">>

SOLO_TR == <<"<", "T", "R", ">">>

Tabla1 ==
    [cols  |-> <<"Item", "Monto">>,
     filas |-> << <<"Renta fija", "1234.56">>, <<"Total", "n.d.">> >>]

TablaVacia == [cols |-> <<"Item", "Monto">>, filas |-> <<>>]

TablaUnaCol == [cols |-> <<"Item">>, filas |-> << <<"12345">> >>]

Raise == [raise |-> TRUE, tablas |-> <<>>]

Tablas(ts) == [raise |-> FALSE, tablas |-> ts]

SinH3 == [hay |-> FALSE, texto |-> <<>>]

H3(t) == [hay |-> TRUE, texto |-> t]

Ok(content, pad, enc, h3, t2, t1) ==
    [tipo |-> "ok", content |-> content, pad |-> pad, apparent_encoding |-> enc,
     h3 |-> h3, t2 |-> t2, t1 |-> t1]

RespuestasCompletas ==
    { Ok(TABLE_TR, MinLen - Len(TABLE_TR), SinEncoding,
         H3(<<"A", "c", "t", "i", "v", "o", "s">>), Tablas(<<Tabla1>>), Raise),
      Ok(TABLE_TR_MAYUS \o <<"xE9">>, MinLen, "ISO-8859-1",
         H3(<<"A", "c", "t", "iacute", "v", "o", "s">>), Raise, Tablas(<<TablaVacia>>)),
      Ok(TABLE_TR \o <<"xC2", "xA0">>, MinLen, SinEncoding,
         SinH3, Raise, Raise),
      Ok(TABLE_TR \o <<"xE9">>, MinLen, "Ascii",
         H3(<<"iquest", "?">>), Tablas(<<>>), Raise),
      Ok(TABLE_TR \o <<"xA0">>, MinLen, "desconocido",
         H3(<<"A", " ", "&", "a", "m", "p", ";", " ", "B">>),
         Tablas(<<TablaUnaCol>>), Raise) }

RespuestasDefectuosas ==
    { Ok(<<>>, 0, SinEncoding, SinH3, Raise, Raise),
      Ok(TABLE_TR, MinLen - Len(TABLE_TR) - 1, SinEncoding,
         H3(<<"A", "c", "t", "i", "v", "o", "s">>), Tablas(<<Tabla1>>), Raise),
      Ok(SOLO_TABLE, MinLen, SinEncoding, SinH3, Raise, Raise),
      Ok(SOLO_TR \o <<"xE9">>, MinLen, SinEncoding, SinH3, Raise, Raise),
      \* 500 characters decoded, 499 once the "Â" is removed
      Ok(TABLE_TR \o <<"xC3", "x82">>, MinLen - Len(TABLE_TR) - 1, SinEncoding,
         SinH3, Tablas(<<Tabla1>>), Raise) }

\* session.get raised, or raise_for_status did (timeout, connection, non-2xx)
RespuestaError == [tipo |-> "error"]

Respuestas200 == RespuestasCompletas \cup RespuestasDefectuosas

\* html_tmp = decode_html(resp).replace("\xa0", " ").replace("Â", ""), for
\* a try of link `k`; decodificado keeps what decode_html returned.
html_tmp_de(resp, k) ==
    LET texto == decode_html(resp.content, resp.apparent_encoding).texto
    IN [head |-> reemplazos(texto), decodificado |-> texto,
        pad |-> resp.pad, h3 |-> resp.h3, t2 |-> resp.t2, t1 |-> resp.t1,
        de |-> k]

\* The rules of the structural validator, as the specification words them:
\* the text is non-empty, has at least MinLen characters, and holds the
\* markers "<table" and "<tr" in any mix of upper and lower case.
MayusculaDe ==
    {<<"T", "t">>, <<"A", "a">>, <<"B", "b">>, <<"L", "l">>, <<"E", "e">>,
     <<"R", "r">>}

MarcaEn(s, m) ==
    \E k \in 0..(Len(s) - Len(m)) :
        \A j \in 1..Len(m) : s[k + j] = m[j] \/ <<s[k + j], m[j]>> \in MayusculaDe

EstructuralmenteValido(d) ==
    /\ LenDoc(d) > 0
    /\ LenDoc(d) >= MinLen
    /\ MarcaEn(d.head, <<"<", "t", "a", "b", "l", "e">>)
    /\ MarcaEn(d.head, <<"<", "t", "r">>)

\* The outcome of one try, by those rules.
Resultado(html_tmp) == IF EstructuralmenteValido(html_tmp) THEN "valido" ELSE "invalido"

(***************************************************************************)
(* What _transformar_solo_numeros_en_texto and                             *)
(* _html_transformar_solo_numeros can be called with.                      *)
(***************************************************************************)
Alfabeto == {"1", ".", ",", "a", " ", "_"}

\* The j-th digit of a number: 1, 2, ..., 9, 1, ...
DigitoN(j) == Digitos[((j - 1) % 9) + 1]

\* The number with n leading digits, k groups of thousands and m decimals,
\* as SPensiones writes it: 1.234,56 for n = 1, k = 1, m = 2.
Numero(n, k, m) ==
    [q \in 1..(n + 4 * k + (IF m = 0 THEN 0 ELSE 1 + m)) |->
        IF q <= n THEN DigitoN(q)
        ELSE IF q <= n + 4 * k
             THEN LET r == q - n - 1
                  IN IF r % 4 = 0 THEN "." ELSE DigitoN(n + 3 * (r \div 4) + (r % 4))
        ELSE IF q = n + 4 * k + 1 THEN ","
        ELSE DigitoN(n + 3 * k + (q - n - 4 * k - 1))]

Prefijos == {<<>>, <<" ">>, <<"a", " ">>}

Sufijos == {<<>>, <<" ">>, <<" ", "a">>}

EntradaTexto(t) ==
    [tipo |-> "texto", texto |-> t, soup |-> <<>>,
     numero |-> <<0, 0, 0>>, pre |-> <<>>, suf |-> <<>>]

EntradaNumero(pre, n, k, m, suf) ==
    [tipo |-> "numero", texto |-> pre \o Numero(n, k, m) \o suf, soup |-> <<>>,
     numero |-> <<n, k, m>>, pre |-> pre, suf |-> suf]

EntradaHtml(soup) ==
    [tipo |-> "html", texto |-> <<>>, soup |-> soup,
     numero |-> <<0, 0, 0>>, pre |-> <<>>, suf |-> <<>>]

\* An element with one string inside: <name attrs>texto</name>
Elemento(name, attrs, clase, texto) ==
    <<Tag(name, attrs), Cadena(clase, name, texto)>>

TextosNodo ==
    { <<"1", ".", "2", "3", "4", ",", "5">>, <<"a", " ", "1", ",", "5">>, <<" ">> }

HREF == <<"/", "p", "/", "1", ".", "2", "3", "4", ",", "5">>

Elementos ==
    {Elemento(n, <<>>, "NavigableString", t) :
        n \in {"td", "th", "h3", "script", "style"}, t \in TextosNodo}
    \cup {Elemento("a", <<HREF>>, "NavigableString", t) : t \in TextosNodo}
    \cup {Elemento("td", <<>>, "Comment", <<"1", ".", "2", "3", "4">>)}

RECURSIVE Aplanar(_)
Aplanar(es) == IF es = <<>> THEN <<>> ELSE Head(es) \o Aplanar(Tail(es))

(***************************************************************************)
(* What limpiar_nombre can be called with.                                 *)
(***************************************************************************)
AlfabetoTitulo == {"a", "A", " ", "-", "_", ".", "iacute"}

\* Titles with an entity, with characters whose NFKD form holds a space or
\* a slash, with path separators, and the positional fallback.
TitulosNotables ==
    { <<"A", " ", "&", "a", "m", "p", ";", " ", "B">>,
      <<"A", "&", "a", "m", "p", "B">>,
      <<"care_of", "a">>,
      <<"acute", "a", "b">>,
      <<"nbsp", "a", "nbsp", "b", "nbsp">>,
      <<"tab", "a", "tab", " ", "b">>,
      <<".", ".", "/", "a">>,
      <<"a", "/", "A">>,
      <<"iquest", "?">>,
      cuadro_fallback(1) }

\* max_len: the default, and caps that cut the titles of the model.
Cortes == (1..(MaxTitulo - 1)) \cup {MaxLenNombre}

EntradaTitulo(t, max_len) == [tipo |-> "titulo", texto |-> t, max_len |-> max_len]

(***************************************************************************)
(* config.py, the output directories of the downloaders and the directory  *)
(* auditar_anio reads.  A path is the sequence of its components, a        *)
(* component the sequence of its pieces: the digits of a year or a period, *)
(* or one name.                                                            *)
(***************************************************************************)
DATA_DIR == << <<"data">> >>

DEFAULT_CARTERAS_INVERSIONES_AGREGADA_DIR ==
    DATA_DIR \o << <<"Carteras_Inversiones_agregadas">> >>

DEFAULT_EEFF_DIR == DATA_DIR \o << <<"Estados_Financieros">> >>

DEFAULT_CARTERAS_INVERSIONES_DIR == DATA_DIR \o << <<"Carteras_Inversiones">> >>

\* CONFIG_AUDITORIA[opcion]["carpeta"]
CONFIG_AUDITORIA ==
    ("1" :> [carpeta |-> <<"Carteras_Inversiones_agregadas">>]) @@
    ("2" :> [carpeta |-> <<"Carteras_Inversiones">>]) @@
    ("3" :> [carpeta |-> <<"Estados_Financieros">>])

\* f"{mes:02d}"
Cifras == <<"1", "2", "3", "4", "5", "6", "7", "8", "9">>

Cifra(n) == IF n = 0 THEN "0" ELSE Cifras[n]

DosCifras(mes) == <<Cifra(mes \div 10), Cifra(mes % 10)>>

\* periodo = f"{anio}{mes:02d}"
periodo_de(anio, mes) == anio \o DosCifras(mes)

\* csv_dir of descargar_carteras and descargar_carteras_inversion:
\* os.path.join(base_dir, periodo[:4], "csv", periodo)
csv_dir_carteras(periodo, base_dir) ==
    base_dir \o <<SubSeq(periodo, 1, 4), <<"csv">>, periodo>>

\* csv_dir of descargar_eeff: os.path.join(base_dir, "csv", periodo)
csv_dir_eeff(periodo, base_dir) == base_dir \o << <<"csv">>, periodo>>

\* The csv_dir of the downloader of a dataset, run with its default base_dir.
csv_dir(dataset, periodo) ==
    CASE dataset = "1" ->
            csv_dir_carteras(periodo, DEFAULT_CARTERAS_INVERSIONES_AGREGADA_DIR)
      [] dataset = "2" ->
            csv_dir_carteras(periodo, DEFAULT_CARTERAS_INVERSIONES_DIR)
      [] dataset = "3" -> csv_dir_eeff(periodo, DEFAULT_EEFF_DIR)

\* ruta_local = DATA_DIR / conf["carpeta"] / str(anio) / "csv" / periodo
ruta_local(opcion, anio, periodo) ==
    DATA_DIR \o <<CONFIG_AUDITORIA[opcion].carpeta, anio, <<"csv">>, periodo>>

\* _leer_stems_en_disco(ruta_local) on the tree t
leer_stems_en_disco(t, ruta) == IF ruta \in DOMAIN t THEN t[ruta] ELSE {}

\* The years downloaded and audited; both are past, so that auditar_anio
\* goes through their twelve months.
Anios == { <<"2", "0", "2", "3">>, <<"2", "0", "2", "4">> }

Meses == 1..12

(***************************************************************************)
(* State.                                                                  *)
(***************************************************************************)
VARIABLES
    prog,          \* which program runs: a downloader or a call of a function
    \* ---- descargar_y_guardar_cuadros
    total,         \* len(links)
    i,             \* the for loop's index, 1-based
    intento,       \* the retry loop's index
    pc,            \* where the function is
    html_base,     \* None or the validated document of link i
    enVuelo,       \* GETs issued and not yet answered
    html_files,    \* html_dir: nombre -> [html, completo]
    csv_files,     \* csv_dir: nombre -> [tabla, de]
    gets,          \* history: the GETs issued per link
    historial,     \* history: the outcome of every try of link i so far
    primer_valido, \* history: per link, the try that first got a valid payload (0: none)
    sleeps,        \* history: the sleeps per link
    omitidos,      \* history: the links skipped after MAX_REINTENTOS tries
    escritos,      \* history: [link, tipo] for every file written
    validados,     \* history: the links for which _html_es_valido returned True
    nombres,       \* history: per link, the nombre it was persisted under
    fs_fallo,      \* history: per link, the file system call that failed for it
    validacion     \* history: the call of _html_es_valido just made, and its result

VARIABLES
    \* ---- descargar_precios_if_anio
    max_workers,   \* the size of the pool
    total_dias,    \* len(fechas_a_procesar); the dates are 1..total_dias
    pc_main,       \* where the orchestrator is
    cola,          \* the executor's work queue: submitted jobs no thread has taken
    estado,        \* per date: "nuevo", "en_cola", "get", "persistir", "hecho"
    archivo,       \* per date: the response the worker got
    paso,          \* per date: the next member _persistir_y_extraer extracts
    resultado,     \* per date: what the future holds: "True", "False", "raise"
    contados,      \* the futures as_completed has yielded
    exitos,
    errores,
    resumen,       \* the final log line: [exitos, errores, total] once emitted
    zips,          \* zip_dir of every month: the dates whose ZIP is on disk
    txts           \* txt_dir of every month: <<mes, ruta>> -> the date a file came
                   \* from, 0 for a directory

VARIABLES
    \* ---- _transformar_solo_numeros_en_texto, _html_transformar_solo_numeros,
    \* ---- limpiar_nombre
    entrada,       \* the argument of the call: a text or a parsed document
    salida,        \* what the call returned
    pc_num         \* "llamar" before the call, "fin" after it

numeros_vars == <<entrada, salida, pc_num>>

VARIABLES
    \* ---- descargar_y_guardar_cuadros run twice on the same batch
    guion,         \* per link, what the server and the file system answer in both runs
    corrida,       \* the run: 1 or 2
    arbol1         \* the output tree the first run left

repeticion_vars == <<guion, corrida, arbol1>>

VARIABLES
    \* ---- a downloader run for one period, then auditar_anio
    descarga,      \* the dataset, the period and what the download persists
    arbol,         \* the data tree: directory -> the stems of its CSV files
    reporte,       \* the audit's table: month -> DISCO
    pc_aud         \* "descargar", "auditar", "fin"

auditoria_vars == <<descarga, arbol, reporte, pc_aud>>

precios_vars ==
    <<max_workers, total_dias, pc_main, cola, estado, archivo, paso, resultado,
      contados, exitos, errores, resumen, zips, txts>>

cuadros_vars ==
    <<total, i, intento, pc, html_base, enVuelo, html_files, csv_files, gets,
      historial, primer_valido, sleeps, omitidos, escritos, validados, nombres,
      fs_fallo, validacion>>

vars ==
    <<prog, cuadros_vars, precios_vars, numeros_vars, repeticion_vars,
      auditoria_vars>>

SinValidacion == [hecha |-> FALSE]

\* decode_html raised inside the try of the retry loop.
ExcepcionAlDecodificar == [hecha |-> FALSE, excepcion |-> "decode_html"]

InitCuadros(n) ==
    /\ total = n
    /\ i = 1
    /\ intento = 1
    /\ html_base = None
    /\ enVuelo = 0
    /\ html_files = <<>>
    /\ csv_files = <<>>
    /\ gets = [k \in 1..n |-> 0]
    /\ historial = <<>>
    /\ primer_valido = [k \in 1..n |-> 0]
    /\ sleeps = [k \in 1..n |-> 0]
    /\ omitidos = {}
    /\ escritos = {}
    /\ validados = {}
    /\ nombres = [k \in 1..n |-> <<>>]
    /\ fs_fallo = [k \in 1..n |-> "ninguno"]
    /\ validacion = SinValidacion

SinRespuesta == [status |-> 0]

SinResumen == [emitido |-> FALSE]

InitPrecios(n, w) ==
    /\ max_workers = w
    /\ total_dias = n
    /\ cola = <<>>
    /\ estado = [d \in 1..n |-> "nuevo"]
    /\ archivo = [d \in 1..n |-> SinRespuesta]
    /\ paso = [d \in 1..n |-> 0]
    /\ resultado = [d \in 1..n |-> "pendiente"]
    /\ contados = {}
    /\ exitos = 0
    /\ errores = 0
    /\ resumen = SinResumen
    /\ zips = {}
    /\ txts = <<>>

SinSalida == [texto |-> <<>>, soup |-> <<>>]

InitNumeros(e) ==
    /\ entrada = e
    /\ salida = SinSalida

SinNumeros ==
    /\ pc_num = "inactivo"
    /\ InitNumeros(EntradaTexto(<<>>))

SinArbol == [htmls |-> <<>>, csvs |-> <<>>]

InitRepeticion(g) ==
    /\ guion = g
    /\ corrida = 1
    /\ arbol1 = SinArbol

\* No download is audited.
SinAuditoria ==
    /\ pc_aud = "inactivo"
    /\ descarga = [dataset |-> "0"]
    /\ arbol = <<>>
    /\ reporte = <<>>

\* descargar_y_guardar_cuadros is called with a list of at most MaxLinks links
InitProgCuadros ==
    /\ prog = "cuadros"
    /\ pc = "for"
    /\ \E n \in 0..MaxLinks : InitCuadros(n)
    /\ pc_main = "inactivo"
    /\ InitPrecios(0, 1)
    /\ SinNumeros
    /\ InitRepeticion(<<>>)
    /\ SinAuditoria

\* descargar_precios_if_anio is called for a year of at most MaxFechas working
\* days, with at most MaxWorkers threads
InitProgPrecios ==
    /\ prog = "precios"
    /\ pc_main = "submit"
    /\ \E n \in 0..MaxFechas, w \in 1..MaxWorkers : InitPrecios(n, w)
    /\ pc = "inactivo"
    /\ InitCuadros(0)
    /\ SinNumeros
    /\ InitRepeticion(<<>>)
    /\ SinAuditoria

\* one call of _transformar_solo_numeros_en_texto, with any text of at most
\* MaxTexto characters or with a number standing alone in a text, or one call
\* of _html_transformar_solo_numeros with a document of at most MaxElementos
\* elements
InitProgNumeros ==
    /\ prog = "numeros"
    /\ pc_num = "llamar"
    /\ \/ \E m \in 0..MaxTexto : \E t \in [1..m -> Alfabeto] :
             InitNumeros(EntradaTexto(t))
       \/ \E pre \in Prefijos, suf \in Sufijos :
             \E n \in 1..3, k \in 0..MaxGrupos, m \in 0..MaxDecimales :
                InitNumeros(EntradaNumero(pre, n, k, m, suf))
       \/ \E m \in 0..MaxElementos : \E es \in [1..m -> Elementos] :
             InitNumeros(EntradaHtml(Aplanar(es)))
    /\ pc = "inactivo"
    /\ InitCuadros(0)
    /\ pc_main = "inactivo"
    /\ InitPrecios(0, 1)
    /\ InitRepeticion(<<>>)
    /\ SinAuditoria

\* one call of limpiar_nombre, with any title of at most MaxTitulo characters
\* or one of the notable titles, and with max_len the default or a cap that
\* cuts the title
InitProgNombre ==
    /\ prog = "nombre"
    /\ pc_num = "llamar"
    /\ \E max_len \in Cortes :
          \/ \E m \in 0..MaxTitulo : \E t \in [1..m -> AlfabetoTitulo] :
                InitNumeros(EntradaTitulo(t, max_len))
          \/ \E t \in TitulosNotables : InitNumeros(EntradaTitulo(t, max_len))
    /\ pc = "inactivo"
    /\ InitCuadros(0)
    /\ pc_main = "inactivo"
    /\ InitPrecios(0, 1)
    /\ InitRepeticion(<<>>)
    /\ SinAuditoria

\* The downloader of one dataset is run for one period on an empty data
\* tree and persists at most MaxCsv CSV files; auditar_anio is then run for
\* that dataset and a year
InitProgAuditoria ==
    /\ prog = "auditoria"
    /\ pc_aud = "descargar"
    /\ \E dataset \in DOMAIN CONFIG_AUDITORIA, anio \in Anios, mm \in Meses,
          k \in 0..MaxCsv, auditado \in Anios :
          descarga = [dataset |-> dataset, anio |-> anio, mes |-> mm,
                      periodo |-> periodo_de(anio, mm), csvs |-> 1..k,
                      auditado |-> auditado]
    /\ arbol = <<>>
    /\ reporte = <<>>
    /\ pc = "inactivo"
    /\ InitCuadros(0)
    /\ pc_main = "inactivo"
    /\ InitPrecios(0, 1)
    /\ SinNumeros
    /\ InitRepeticion(<<>>)

\* The answers of a batch that is downloaded twice: per link, the response
\* to each try (the tries end with the first valid payload) and what the
\* file system does when the link is persisted.
RespuestasRepetidas ==
    {r \in RespuestasCompletas : r.apparent_encoding \in {SinEncoding, "ISO-8859-1"}}

Guiones ==
    {[respuestas |-> <<r>>, fallo |-> f] :
        r \in RespuestasRepetidas, f \in {"ninguno", "to_csv", "open"}}
    \cup {[respuestas |-> <<RespuestaError, r>>, fallo |-> "ninguno"] :
            r \in RespuestasRepetidas}
    \cup {[respuestas |-> [k \in 1..MAX_REINTENTOS |-> RespuestaError],
           fallo |-> "ninguno"]}

\* descargar_y_guardar_cuadros is called on a batch, and then again on the
\* same batch with the same directories and the same answers
InitProgRepeticion ==
    /\ prog = "repetir"
    /\ pc = "for"
    /\ \E n \in 0..MaxLinks :
          /\ InitCuadros(n)
          /\ \E g \in [1..n -> Guiones] : InitRepeticion(g)
    /\ pc_main = "inactivo"
    /\ InitPrecios(0, 1)
    /\ SinNumeros
    /\ SinAuditoria

Init ==
    \/ InitProgCuadros
    \/ InitProgPrecios
    \/ InitProgNumeros
    \/ InitProgRepeticion
    \/ InitProgNombre
    \/ InitProgAuditoria

\* The downloader of cuadros runs.
Cuadros == prog \in {"cuadros", "repetir"}

\* What the server answers to try `intento` of link i, and what the file
\* system does for link i: anything in a single run, the batch's answers
\* when the batch is downloaded twice.
RespuestaPosible(r) == prog = "repetir" => guion[i].respuestas[intento] = r

FalloPosible(f) == prog = "repetir" => guion[i].fallo = f

(***************************************************************************)
(* descargar_y_guardar_cuadros                                             *)
(***************************************************************************)
\* if _html_es_valido(html_tmp): html_base = html_tmp; break
AceptaHtml_sinValidar(html_tmp) == TRUE

AceptaHtml(html_tmp) == html_es_valido(html_tmp)

\* for intento in range(1, MAX_REINTENTOS + 1): is there a next iteration
QuedanIntentos_unoMas(n) == n < MAX_REINTENTOS + 1

QuedanIntentos(n) == n < MAX_REINTENTOS

\* html_base = None, at the top of the loop's body
html_base_sinReset(previo) == previo

html_base_inicial(previo) == None

\* html_base after a try that got the payload html_tmp: assigned only when
\* the payload is valid
html_base_guardaInvalido(previo, html_tmp) == html_tmp

html_base_tras_intento(previo, html_tmp) ==
    IF AceptaHtml(html_tmp) THEN html_tmp ELSE previo

\* for i, link in enumerate(links, start=1): html_base = None
IniciarCuadro ==
    /\ Cuadros /\ pc = "for" /\ i <= total
    /\ html_base' = html_base_inicial(html_base)
    /\ intento' = 1
    /\ historial' = <<>>
    /\ pc' = "get"
    /\ UNCHANGED <<prog, auditoria_vars, numeros_vars, repeticion_vars,
                   precios_vars, total, i, enVuelo, html_files, csv_files,
                   gets, primer_valido, sleeps, omitidos, escritos, validados,
                   nombres, fs_fallo, validacion>>

\* resp = session.get(link, timeout=60): the request leaves
EmitirGet ==
    /\ Cuadros /\ pc = "get"
    /\ enVuelo' = enVuelo + 1
    /\ gets' = [gets EXCEPT ![i] = @ + 1]
    /\ pc' = "respuesta"
    /\ UNCHANGED <<prog, auditoria_vars, numeros_vars, repeticion_vars,
                   precios_vars, total, i, intento, html_base, html_files,
                   csv_files, historial, primer_valido, sleeps, omitidos,
                   escritos, validados, nombres, fs_fallo, validacion>>

\* session.get or raise_for_status raises: except Exception, logger.warning
ErrorDeTransporte ==
    /\ Cuadros /\ pc = "respuesta"
    /\ RespuestaPosible(RespuestaError)
    /\ enVuelo' = enVuelo - 1
    /\ historial' = Append(historial, "error")
    /\ validacion' = SinValidacion
    /\ pc' = "sleep"
    /\ UNCHANGED <<prog, auditoria_vars, numeros_vars, repeticion_vars,
                   precios_vars, total, i, intento, html_base, html_files,
                   csv_files, gets, primer_valido, sleeps, omitidos, escritos,
                   validados, nombres, fs_fallo>>

\* a 2xx response: decode, replace, validate; break when valid
Respuesta200 ==
    /\ Cuadros /\ pc = "respuesta"
    /\ \E resp \in Respuestas200 : \E html_tmp \in {html_tmp_de(resp, i)} :
            /\ RespuestaPosible(resp)
            /\ enVuelo' = enVuelo - 1
            /\ IF decode_html(resp.content, resp.apparent_encoding).raise
               THEN \* except Exception as e: logger.warning
                    /\ historial' = Append(historial, "error")
                    /\ validacion' = ExcepcionAlDecodificar
                    /\ html_base' = html_base /\ pc' = "sleep"
                    /\ UNCHANGED <<primer_valido, validados>>
               ELSE /\ historial' = Append(historial, Resultado(html_tmp))
                    /\ primer_valido' =
                         IF primer_valido[i] = 0 /\ Resultado(html_tmp) = "valido"
                         THEN [primer_valido EXCEPT ![i] = Len(historial) + 1]
                         ELSE primer_valido
                    /\ validacion' = [hecha |-> TRUE, html |-> html_tmp, resp |-> resp,
                                      resultado |-> html_es_valido(html_tmp)]
                    /\ validados' = IF html_es_valido(html_tmp)
                                    THEN validados \cup {i} ELSE validados
                    /\ html_base' = html_base_tras_intento(html_base, html_tmp)
                    /\ pc' = IF AceptaHtml(html_tmp)
                             THEN "tras_reintentos" ELSE "sleep"
    /\ UNCHANGED <<prog, auditoria_vars, numeros_vars, repeticion_vars,
                   precios_vars, total, i, intento, html_files, csv_files,
                   gets, sleeps, omitidos, escritos, nombres, fs_fallo>>

\* time.sleep(SLEEP_ENTRE_REINTENTOS), then the next iteration or the loop's end
Dormir_salvoUltimo ==
    /\ Cuadros /\ pc = "sleep"
    /\ sleeps' = IF QuedanIntentos(intento)
                 THEN [sleeps EXCEPT ![i] = @ + 1] ELSE sleeps
    /\ IF QuedanIntentos(intento)
       THEN intento' = intento + 1 /\ pc' = "get"
       ELSE intento' = intento /\ pc' = "tras_reintentos"
    /\ validacion' = SinValidacion
    /\ UNCHANGED <<prog, auditoria_vars, numeros_vars, repeticion_vars,
                   precios_vars, total, i, html_base, enVuelo, html_files,
                   csv_files, gets, historial, primer_valido, omitidos,
                   escritos, validados, nombres, fs_fallo>>

Dormir ==
    /\ Cuadros /\ pc = "sleep"
    /\ sleeps' = [sleeps EXCEPT ![i] = @ + 1]
    /\ IF QuedanIntentos(intento)
       THEN intento' = intento + 1 /\ pc' = "get"
       ELSE intento' = intento /\ pc' = "tras_reintentos"
    /\ validacion' = SinValidacion
    /\ UNCHANGED <<prog, auditoria_vars, numeros_vars, repeticion_vars,
                   precios_vars, total, i, html_base, enVuelo, html_files,
                   csv_files, gets, historial, primer_valido, omitidos,
                   escritos, validados, nombres, fs_fallo>>

\* if html_base is None: logger.error; continue
Omitir_sinAvanzar ==
    /\ Cuadros /\ pc = "tras_reintentos" /\ html_base = None
    /\ omitidos' = omitidos \cup {i}
    /\ i' = i
    /\ pc' = "tras_reintentos"
    /\ UNCHANGED <<prog, auditoria_vars, numeros_vars, repeticion_vars,
                   precios_vars, total, intento, html_base, enVuelo,
                   html_files, csv_files, gets, historial, primer_valido,
                   sleeps, escritos, validados, nombres, fs_fallo, validacion>>

Omitir ==
    /\ Cuadros /\ pc = "tras_reintentos" /\ html_base = None
    /\ omitidos' = omitidos \cup {i}
    /\ i' = i + 1
    /\ pc' = "for"
    /\ UNCHANGED <<prog, auditoria_vars, numeros_vars, repeticion_vars,
                   precios_vars, total, intento, html_base, enVuelo,
                   html_files, csv_files, gets, historial, primer_valido,
                   sleeps, escritos, validados, nombres, fs_fallo, validacion>>

\* nombre = limpiar_nombre(titulo) or f"cuadro_{i:02d}"
nombre_de_sinFallback(html, k) ==
    limpiar_nombre(extraer_titulo(html, cuadro_fallback(k)), MaxLenNombre)

nombre_de(html, k) ==
    LET titulo == extraer_titulo(html, cuadro_fallback(k))
        limpio == limpiar_nombre(titulo, MaxLenNombre)
    IN IF limpio # <<>> THEN limpio ELSE cuadro_fallback(k)

\* titulo, nombre, guardar_html_y_csv(...): the rest of the loop's body
Persistir ==
    /\ Cuadros /\ pc = "tras_reintentos" /\ html_base # None
    /\ \E fallo \in Fallos, nombre \in {nombre_de(html_base, i)} :
       \E g \in {guardar_html_y_csv(html_base, nombre, fallo, html_files, csv_files)} :
            /\ FalloPosible(fallo)
            /\ html_files' = g.htmls
            /\ csv_files' = g.csvs
            /\ escritos' = escritos
                 \cup (IF g.html_escrito THEN {[link |-> i, tipo |-> "html"]} ELSE {})
                 \cup (IF g.csv_escrito THEN {[link |-> i, tipo |-> "csv"]} ELSE {})
            /\ nombres' = [nombres EXCEPT ![i] = nombre]
            /\ fs_fallo' = [fs_fallo EXCEPT ![i] = fallo]
            /\ IF g.raise
               THEN i' = i /\ pc' = "excepcion"
               ELSE i' = i + 1 /\ pc' = "for"
    /\ validacion' = SinValidacion
    /\ UNCHANGED <<prog, auditoria_vars, numeros_vars, repeticion_vars,
                   precios_vars, total, intento, html_base, enVuelo, gets,
                   historial, primer_valido, sleeps, omitidos, validados>>

\* the for loop is exhausted: the function returns None
Retornar ==
    /\ Cuadros /\ pc = "for" /\ i > total
    /\ pc' = "fin"
    /\ UNCHANGED <<prog, auditoria_vars, numeros_vars, repeticion_vars,
                   precios_vars, total, i, intento, html_base, enVuelo,
                   html_files, csv_files, gets, historial, primer_valido,
                   sleeps, omitidos, escritos, validados, nombres, fs_fallo,
                   validacion>>

\* descargar_y_guardar_cuadros is called again with the same links and
\* directories: its locals start afresh, the output tree is what the first
\* call left.
Reejecutar ==
    /\ prog = "repetir" /\ pc \in {"fin", "excepcion"} /\ corrida = 1
    /\ corrida' = 2
    /\ arbol1' = [htmls |-> html_files, csvs |-> csv_files]
    /\ pc' = "for"
    /\ i' = 1
    /\ intento' = 1
    /\ html_base' = None
    /\ gets' = [k \in 1..total |-> 0]
    /\ historial' = <<>>
    /\ primer_valido' = [k \in 1..total |-> 0]
    /\ sleeps' = [k \in 1..total |-> 0]
    /\ omitidos' = {}
    /\ escritos' = {}
    /\ validados' = {}
    /\ nombres' = [k \in 1..total |-> <<>>]
    /\ fs_fallo' = [k \in 1..total |-> "ninguno"]
    /\ validacion' = SinValidacion
    /\ UNCHANGED <<prog, auditoria_vars, precios_vars, numeros_vars, guion,
                   total, enVuelo, html_files, csv_files>>

NextCuadros ==
    \/ IniciarCuadro
    \/ EmitirGet
    \/ ErrorDeTransporte
    \/ Respuesta200
    \/ Dormir
    \/ Omitir
    \/ Persistir
    \/ Retornar

(***************************************************************************)
(* descargar_precios_if_anio, _descargar_dia_worker, _persistir_y_extraer  *)
(***************************************************************************)
\* The month of a date: two working days per month.
mes(d) == (d + 1) \div 2

\* The archives a 200 response can carry: [status, corrupto, miembros, fallo],
\* fallo the file system call of _persistir_y_extraer that fails for it.
\* A member name is the sequence of its path components and separators.
Zip(corrupto, miembros, fallo) ==
    [status |-> 200, corrupto |-> corrupto, miembros |-> miembros, fallo |-> fallo]

Archivos ==
    { Zip(FALSE, << <<"a.txt">> >>, "ninguno"),
      Zip(FALSE, << <<"..", "/", "e.txt">>, <<"b.txt">> >>, "ninguno"),
      Zip(TRUE, <<>>, "ninguno"),
      Zip(FALSE, << <<"a.txt">> >>, "write_bytes"),
      \* an archive that lists a directory before the file inside it
      Zip(FALSE, << <<"/", "abs.txt">>, <<"dir", "/">>, <<"dir", "/", "c.txt">> >>,
          "ninguno") }

\* The other answers: a 404, another status, and session.get raising.
OtrasRespuestas == {[status |-> 404], [status |-> 500], [status |-> -1]}

EnCurso == {d \in 1..total_dias : estado[d] \in {"get", "persistir"}}

\* ThreadPoolExecutor(max_workers=max_workers): the threads that may run jobs
CapacidadPool_sinLimite(w) == w + 1

CapacidadPool(w) == w

\* executor.submit(_descargar_dia_worker, session, d), for d in fechas_a_procesar
Submit ==
    /\ prog = "precios" /\ pc_main = "submit"
    /\ \E d \in 1..total_dias :
         /\ estado[d] = "nuevo"
         /\ \A e \in 1..(d - 1) : estado[e] # "nuevo"
         /\ estado' = [estado EXCEPT ![d] = "en_cola"]
         /\ cola' = Append(cola, d)
    /\ UNCHANGED <<prog, auditoria_vars, numeros_vars, repeticion_vars,
                   cuadros_vars, max_workers, total_dias, pc_main, archivo,
                   paso, resultado, contados, exitos, errores, resumen, zips,
                   txts>>

\* every date is submitted: the for loop over as_completed(futures) starts
EmpezarDrenaje ==
    /\ prog = "precios" /\ pc_main = "submit"
    /\ \A d \in 1..total_dias : estado[d] # "nuevo"
    /\ pc_main' = "as_completed"
    /\ UNCHANGED <<prog, auditoria_vars, numeros_vars, repeticion_vars,
                   cuadros_vars, max_workers, total_dias, cola, estado,
                   archivo, paso, resultado, contados, exitos, errores,
                   resumen, zips, txts>>

\* a thread of the pool takes the next job: session.get(url, timeout=25) leaves
TomarTrabajo ==
    /\ prog = "precios"
    /\ cola # <<>>
    /\ Cardinality(EnCurso) < CapacidadPool(max_workers)
    /\ estado' = [estado EXCEPT ![Head(cola)] = "get"]
    /\ cola' = Tail(cola)
    /\ UNCHANGED <<prog, auditoria_vars, numeros_vars, repeticion_vars,
                   cuadros_vars, max_workers, total_dias, pc_main, archivo,
                   paso, resultado, contados, exitos, errores, resumen, zips,
                   txts>>

\* except Exception as e: logger.error(...); return False
worker_except_True == "True"

worker_except == "False"

\* status 404, another status, or an exception of session.get: return False
RespuestaSinArchivo ==
    /\ prog = "precios"
    /\ \E d \in 1..total_dias, r \in OtrasRespuestas :
         /\ estado[d] = "get"
         /\ archivo' = [archivo EXCEPT ![d] = r]
         /\ estado' = [estado EXCEPT ![d] = "hecho"]
         /\ resultado' = [resultado EXCEPT
                            ![d] = IF r.status = -1 THEN worker_except ELSE "False"]
    /\ UNCHANGED <<prog, auditoria_vars, numeros_vars, repeticion_vars,
                   cuadros_vars, max_workers, total_dias, pc_main, cola, paso,
                   contados, exitos, errores, resumen, zips, txts>>

\* status 200: logger.info, then _persistir_y_extraer up to
\* zip_path.write_bytes(contenido)
Respuesta200Zip ==
    /\ prog = "precios"
    /\ \E d \in 1..total_dias, a \in Archivos :
         /\ estado[d] = "get"
         /\ archivo' = [archivo EXCEPT ![d] = a]
         /\ IF a.fallo = "write_bytes"
            THEN \* OSError leaves _persistir_y_extraer: the worker's except
                 /\ estado' = [estado EXCEPT ![d] = "hecho"]
                 /\ resultado' = [resultado EXCEPT ![d] = worker_except]
                 /\ UNCHANGED <<zips, paso>>
            ELSE /\ zips' = zips \cup {d}
                 /\ estado' = [estado EXCEPT ![d] = "persistir"]
                 /\ paso' = [paso EXCEPT ![d] = 1]
                 /\ UNCHANGED resultado
    /\ UNCHANGED <<prog, auditoria_vars, numeros_vars, repeticion_vars,
                   cuadros_vars, max_workers, total_dias, pc_main, cola,
                   contados, exitos, errores, resumen, txts>>

\* if member.startswith("/") or ".." in member: continue
MiembroInseguro(member) ==
    \/ member # <<>> /\ Head(member) = "/"
    \/ \E k \in 1..Len(member) : member[k] = ".."

\* txt_dir / member, as the components below txt_dir; an absolute member
\* replaces txt_dir and keeps its leading "/".
Ruta(member) ==
    LET sin == quitar(member, {"/"})
    IN IF member # <<>> /\ Head(member) = "/" THEN <<"/">> \o sin ELSE sin

\* The directories target_path.parent.mkdir(parents=True) has to find or make.
Padres(ruta) == {SubSeq(ruta, 1, n) : n \in 1..(Len(ruta) - 1)}

\* txts holds a date for a regular file and 0 for a directory.
EsArchivo(m, ruta) == <<m, ruta>> \in DOMAIN txts /\ txts[<<m, ruta>>] # 0

EsDirectorio(m, ruta) == <<m, ruta>> \in DOMAIN txts /\ txts[<<m, ruta>>] = 0

\* txts with the directories ds of month m made.
RECURSIVE ConDirectorios(_, _, _)
ConDirectorios(t, m, ds) ==
    IF ds = {} THEN t
    ELSE LET r == CHOOSE r \in ds : TRUE
         IN ConDirectorios((<<m, r>> :> 0) @@ t, m, ds \ {r})

\* one iteration of `for member in z.namelist()`: the member is skipped, or
\* its parent directories are made and it is written; mkdir raises when a
\* parent is a regular file, open when the target is a directory, and the
\* exception leaves _persistir_y_extraer for the worker's except
ExtraerMiembro ==
    /\ prog = "precios"
    /\ \E d \in 1..total_dias :
         /\ estado[d] = "persistir"
         /\ ~archivo[d].corrupto
         /\ paso[d] <= Len(archivo[d].miembros)
         /\ LET member == archivo[d].miembros[paso[d]]
                ruta   == Ruta(member)
                m      == mes(d)
                choque == {r \in Padres(ruta) : EsArchivo(m, r)}
                hechos == {r \in Padres(ruta) :
                              \A c \in choque : Len(r) < Len(c)}
                falla  == IF choque # {} THEN "mkdir"
                          ELSE IF EsDirectorio(m, ruta) THEN "open"
                          ELSE "ninguno"
            IN IF MiembroInseguro(member)
               THEN /\ paso' = [paso EXCEPT ![d] = @ + 1]
                    /\ UNCHANGED <<txts, estado, archivo, resultado>>
               ELSE IF falla # "ninguno"
               THEN /\ txts' = ConDirectorios(txts, m, hechos)
                    /\ archivo' = [archivo EXCEPT ![d].fallo = falla]
                    /\ estado' = [estado EXCEPT ![d] = "hecho"]
                    /\ resultado' = [resultado EXCEPT ![d] = worker_except]
                    /\ UNCHANGED paso
               ELSE /\ txts' = (<<m, ruta>> :> d) @@ ConDirectorios(txts, m, hechos)
                    /\ paso' = [paso EXCEPT ![d] = @ + 1]
                    /\ UNCHANGED <<estado, archivo, resultado>>
    /\ UNCHANGED <<prog, auditoria_vars, numeros_vars, repeticion_vars,
                   cuadros_vars, max_workers, total_dias, pc_main, cola,
                   contados, exitos, errores, resumen, zips>>

\* the archive is read through, or zipfile.BadZipFile was caught and logged:
\* _persistir_y_extraer returns and the worker returns True
TerminarWorker ==
    /\ prog = "precios"
    /\ \E d \in 1..total_dias :
         /\ estado[d] = "persistir"
         /\ archivo[d].corrupto \/ paso[d] > Len(archivo[d].miembros)
         /\ estado' = [estado EXCEPT ![d] = "hecho"]
         /\ resultado' = [resultado EXCEPT ![d] = "True"]
    /\ UNCHANGED <<prog, auditoria_vars, numeros_vars, repeticion_vars,
                   cuadros_vars, max_workers, total_dias, pc_main, cola,
                   archivo, paso, contados, exitos, errores, resumen, zips,
                   txts>>

\* the body of `for future in as_completed(futures)`: the counters after one
\* future with result r
contar_sinElse(r, ex, er) ==
    IF r = "raise" THEN [exitos |-> ex, errores |-> er + 1]
    ELSE IF r = "True" THEN [exitos |-> ex + 1, errores |-> er]
    ELSE [exitos |-> ex, errores |-> er]

contar(r, ex, er) ==
    IF r = "raise" THEN [exitos |-> ex, errores |-> er + 1]
    ELSE IF r = "True" THEN [exitos |-> ex + 1, errores |-> er]
    ELSE [exitos |-> ex, errores |-> er + 1]

\* as_completed yields a future that is done
Drenar ==
    /\ prog = "precios" /\ pc_main = "as_completed"
    /\ \E d \in 1..total_dias :
         /\ estado[d] = "hecho"
         /\ d \notin contados
         /\ contados' = contados \cup {d}
         /\ LET c == contar(resultado[d], exitos, errores)
            IN exitos' = c.exitos /\ errores' = c.errores
    /\ UNCHANGED <<prog, auditoria_vars, numeros_vars, repeticion_vars,
                   cuadros_vars, max_workers, total_dias, pc_main, cola,
                   estado, archivo, paso, resultado, resumen, zips, txts>>

\* as_completed is exhausted, the with block has waited for the pool:
\* logger.info("Finalizado. ...")
Resumir ==
    /\ prog = "precios" /\ pc_main = "as_completed"
    /\ contados = 1..total_dias
    /\ resumen' = [emitido |-> TRUE, exitos |-> exitos, errores |-> errores,
                   total |-> total_dias]
    /\ pc_main' = "fin"
    /\ UNCHANGED <<prog, auditoria_vars, numeros_vars, repeticion_vars,
                   cuadros_vars, max_workers, total_dias, cola, estado,
                   archivo, paso, resultado, contados, exitos, errores, zips,
                   txts>>

NextPrecios ==
    \/ Submit
    \/ EmpezarDrenaje
    \/ TomarTrabajo
    \/ RespuestaSinArchivo
    \/ Respuesta200Zip
    \/ ExtraerMiembro
    \/ TerminarWorker
    \/ Drenar
    \/ Resumir

(***************************************************************************)
(* _transformar_solo_numeros_en_texto, _html_transformar_solo_numeros      *)
(***************************************************************************)
TransformarTexto ==
    /\ prog = "numeros" /\ pc_num = "llamar"
    /\ entrada.tipo \in {"texto", "numero"}
    /\ salida' = [texto |-> transformar_solo_numeros_en_texto(entrada.texto),
                  soup  |-> <<>>]
    /\ pc_num' = "fin"
    /\ UNCHANGED <<prog, auditoria_vars, cuadros_vars, precios_vars,
                   repeticion_vars, entrada>>

TransformarHtml ==
    /\ prog = "numeros" /\ pc_num = "llamar"
    /\ entrada.tipo = "html"
    /\ salida' = [texto |-> <<>>,
                  soup  |-> html_transformar_solo_numeros(entrada.soup)]
    /\ pc_num' = "fin"
    /\ UNCHANGED <<prog, auditoria_vars, cuadros_vars, precios_vars,
                   repeticion_vars, entrada>>

NextNumeros == TransformarTexto \/ TransformarHtml

(***************************************************************************)
(* limpiar_nombre                                                          *)
(***************************************************************************)
LimpiarNombre ==
    /\ prog = "nombre" /\ pc_num = "llamar"
    /\ salida' = [texto |-> limpiar_nombre(entrada.texto, entrada.max_len),
                  soup  |-> <<>>]
    /\ pc_num' = "fin"
    /\ UNCHANGED <<prog, auditoria_vars, cuadros_vars, precios_vars,
                   repeticion_vars, entrada>>

NextNombre == LimpiarNombre

(***************************************************************************)
(* A download of one period, then scripts/auditoria_datos.py: auditar_anio *)
(***************************************************************************)
\* descargar_carteras, descargar_carteras_inversion or descargar_eeff for
\* descarga.periodo: guardar_html_y_csv makes csv_dir and writes the CSV
\* files into it
Descargar ==
    /\ prog = "auditoria" /\ pc_aud = "descargar"
    /\ arbol' = IF descarga.csvs = {} THEN arbol
                ELSE (csv_dir(descarga.dataset, descarga.periodo) :> descarga.csvs)
                     @@ arbol
    /\ pc_aud' = "auditar"
    /\ UNCHANGED <<prog, cuadros_vars, precios_vars, numeros_vars,
                   repeticion_vars, descarga, reporte>>

\* auditar_anio(opcion, anio): for every month, n_disco is the number of
\* CSV stems in ruta_local
Auditar ==
    /\ prog = "auditoria" /\ pc_aud = "auditar"
    /\ reporte' =
          [mm \in Meses |->
              Cardinality(leer_stems_en_disco(arbol,
                  ruta_local(descarga.dataset, descarga.auditado,
                             periodo_de(descarga.auditado, mm))))]
    /\ pc_aud' = "fin"
    /\ UNCHANGED <<prog, cuadros_vars, precios_vars, numeros_vars,
                   repeticion_vars, descarga, arbol>>

NextAuditoria == Descargar \/ Auditar

NextRepeticion == NextCuadros \/ Reejecutar

Next ==
    \/ NextCuadros
    \/ NextPrecios
    \/ NextNumeros
    \/ Reejecutar
    \/ NextNombre
    \/ NextAuditoria

Spec == Init /\ [][Next]_vars

\* One downloader at a time.
SpecCuadros == InitProgCuadros /\ [][NextCuadros]_vars

\* Persistir can be taken; a Persistir step always leaves this condition.
PersistirHabilitado == Cuadros /\ pc = "tras_reintentos" /\ html_base # None

\* Every GET returns or raises within its timeout, every sleep ends and
\* every file system call returns: the function always takes its next step.
\* The last conjunct is weak fairness of Persistir, written with the
\* condition under which Persistir is enabled.
SpecCuadrosJusta ==
    /\ SpecCuadros
    /\ WF_vars(IniciarCuadro)
    /\ WF_vars(EmitirGet)
    /\ WF_vars(ErrorDeTransporte \/ Respuesta200)
    /\ WF_vars(Dormir)
    /\ WF_vars(Omitir)
    /\ WF_vars(Retornar)
    /\ []<>~PersistirHabilitado

SpecPrecios == InitProgPrecios /\ [][NextPrecios]_vars

SpecNumeros == InitProgNumeros /\ [][NextNumeros]_vars

SpecRepeticion == InitProgRepeticion /\ [][NextRepeticion]_vars

SpecNombre == InitProgNombre /\ [][NextNombre]_vars

SpecAuditoria == InitProgAuditoria /\ [][NextAuditoria]_vars

(***************************************************************************)
(* Properties of descargar_y_guardar_cuadros and guardar_html_y_csv.       *)
(***************************************************************************)
Links == 1..total

\* The position of the first valid outcome in a sequence of outcomes (0: none).
PrimerValidoEn(h) ==
    IF \E j \in 1..Len(h) : h[j] = "valido"
    THEN CHOOSE j \in 1..Len(h) :
            h[j] = "valido" /\ \A m \in 1..(j - 1) : h[m] # "valido"
    ELSE 0

\* The retry loop of link k is over / has not begun.
BucleTerminado(k) == k < i \/ (k = i /\ pc \in {"tras_reintentos", "excepcion"})

NoEmpezado(k) == k > i \/ (k = i /\ pc = "for")

EnBucle(k) == k = i /\ pc \in {"get", "respuesta", "sleep"}

\* C1: for every link, the GETs issued are min(MAX_REINTENTOS, position of
\* the first valid outcome): an error and an invalid payload each use up one
\* try of the same budget, every GET gets one outcome, and no GET follows a
\* valid payload.
C1_GetsPorLink ==
    \A k \in Links :
        /\ gets[k] <= MAX_REINTENTOS
        /\ NoEmpezado(k) => gets[k] = 0
        /\ (EnBucle(k) \/ (k = i /\ BucleTerminado(k))) =>
              /\ gets[k] = Len(historial) + enVuelo
              /\ primer_valido[k] = PrimerValidoEn(historial)
              /\ primer_valido[k] # 0 => primer_valido[k] = Len(historial) /\ ~EnBucle(k)
        /\ BucleTerminado(k) =>
              gets[k] = IF primer_valido[k] = 0 THEN MAX_REINTENTOS
                        ELSE Min(MAX_REINTENTOS, primer_valido[k])

\* C1's case: a link that got an error, then an invalid payload, then a valid one.
C1_Witness ==
    /\ pc = "tras_reintentos"
    /\ historial = <<"error", "invalido", "valido">>
    /\ gets[i] = MAX_REINTENTOS

\* The links whose every try gave an error or an invalid payload.
F == {k \in Links : BucleTerminado(k) /\ primer_valido[k] = 0}

SinFalloFs == \A k \in Links : fs_fallo[k] = "ninguno"

ConHtmlEscrito == {k \in Links : [link |-> k, tipo |-> "html"] \in escritos}

NombresDistintos ==
    \A k, m \in ConHtmlEscrito : k # m => nombres[k] # nombres[m]

\* C2: with a writable file system the batch never raises; no file is
\* written for a link of F; when the batch returns, the links that had a raw
\* file written are exactly those outside F, the links of F are the skipped
\* ones, and when the names are distinct each link outside F has its own file.
C2_AislamientoParcial ==
    SinFalloFs =>
        /\ pc # "excepcion"
        /\ \A k \in Links : primer_valido[k] = 0 =>
              /\ \A e \in escritos : e.link # k
              /\ \A n \in DOMAIN html_files : html_files[n].html.de # k
              /\ \A n \in DOMAIN csv_files : csv_files[n].de # k
        /\ pc = "fin" =>
              /\ ConHtmlEscrito = Links \ F
              /\ omitidos = F
              /\ NombresDistintos =>
                    /\ Cardinality(DOMAIN html_files) = total - Cardinality(F)
                    /\ \A k \in Links \ F :
                          /\ nombres[k] \in DOMAIN html_files
                          /\ html_files[nombres[k]].html.de = k

\* C2's case: a batch of two, the first link always failing, the second
\* persisted.
C2_Witness ==
    /\ pc = "fin" /\ SinFalloFs
    /\ total = 2 /\ F = {1}
    /\ ConHtmlEscrito = {2}

\* C3: a file system failure while persisting one link is confined to it: the
\* batch does not raise (and goes on to the remaining links).
C3_FalloFsConfinado ==
    (\E k \in Links : fs_fallo[k] # "ninguno") => pc # "excepcion"

\* C4: every raw file and every CSV comes from a payload for which
\* _html_es_valido returned True, and guardar_html_y_csv is never reached with
\* a payload that did not pass it.
C4_SoloHtmlValidado ==
    /\ \A n \in DOMAIN html_files :
          /\ html_es_valido(html_files[n].html)
          /\ html_files[n].html.de \in validados
    /\ \A n \in DOMAIN csv_files : csv_files[n].de \in validados
    /\ \A e \in escritos : e.link \in validados
    /\ pc = "tras_reintentos" /\ html_base # None =>
          html_es_valido(html_base) /\ html_base.de \in validados

\* C4's case: a link persisted after a try of its own was refused.
C4_Witness ==
    \E k \in Links :
        /\ gets[k] > 1
        /\ [link |-> k, tipo |-> "html"] \in escritos
        /\ [link |-> k, tipo |-> "csv"] \in escritos

\* C5: _html_es_valido returns True exactly for the texts that are non-empty,
\* hold at least 500 characters and hold "<table" and "<tr" in any case.
C5_ValidadorCaracterizado ==
    validacion.hecha =>
        (validacion.resultado <=> EstructuralmenteValido(validacion.html))

\* C5's case: a text accepted on upper-case markers.
C5_Witness ==
    /\ validacion.hecha
    /\ validacion.resultado
    /\ \E k \in 1..Len(validacion.html.head) : validacion.html.head[k] = "T"

\* Table extraction fails: the parser raises with both headers, or gives no
\* table.
ExtraccionFalla(d) ==
    \/ d.t2.raise /\ d.t1.raise
    \/ ~d.t2.raise /\ d.t2.tablas = <<>>
    \/ d.t2.raise /\ ~d.t1.raise /\ d.t1.tablas = <<>>

\* C10: when extraction fails for a validated payload and the raw file could
\* be written, guardar_html_y_csv does not raise, writes no CSV, leaves the
\* raw file, and the loop moves to the next link without another GET; the
\* GETs of a link whose loop is over never change.
C10_FalloDeExtraccion ==
    [][ /\ ( /\ pc = "tras_reintentos" /\ html_base # None
             /\ ExtraccionFalla(html_base)
             /\ pc' # pc
             /\ fs_fallo'[i] \in {"ninguno", "to_csv"} ) =>
              /\ pc' = "for" /\ i' = i + 1
              /\ csv_files' = csv_files
              /\ [link |-> i, tipo |-> "csv"] \notin escritos'
              /\ nombres'[i] \in DOMAIN html_files'
              /\ html_files'[nombres'[i]].html = html_base
              /\ html_files'[nombres'[i]].completo
        /\ \A k \in Links : BucleTerminado(k) => gets'[k] = gets[k]
      ]_vars

\* C10's case: a persisted link whose payload gave no table.
C10_Witness ==
    \E k \in Links :
        /\ k < i
        /\ nombres[k] \in DOMAIN html_files
        /\ html_files[nombres[k]].html.de = k
        /\ ExtraccionFalla(html_files[nombres[k]].html)
        /\ nombres[k] \notin DOMAIN csv_files

\* C11: no CSV without data rows is ever written: every CSV on disk holds at
\* least one data row.
C11_SinCsvVacio ==
    \A n \in DOMAIN csv_files : csv_files[n].tabla.filas # <<>>

\* C12: the raw file of a link holds exactly what decode_html returned for
\* the response, character for character.
C12_CrudoTalCualDecodificado ==
    \A n \in DOMAIN html_files :
        html_files[n].completo =>
            html_files[n].html.head = html_files[n].html.decodificado

\* The same cell before and after numeric conversion with coercion.
Convertida(antes, despues) == despues = antes \/ despues = "NaN"

\* C16: in every CSV written the first column holds the values of the
\* selected table unchanged, whatever the width of the table, and every other
\* cell is the selected table's cell or the missing-value marker.
C16_PrimeraColumnaIntacta ==
    \A n \in DOMAIN csv_files :
        LET t  == csv_files[n].tabla
            df == csv_files[n].df
        IN /\ t.cols = df.cols
           /\ Len(t.filas) = Len(df.filas)
           /\ \A r \in 1..Len(df.filas) :
                 /\ Len(t.filas[r]) = Len(df.filas[r])
                 /\ t.filas[r][1] = df.filas[r][1]
                 /\ \A c \in 2..Len(df.filas[r]) :
                       Convertida(df.filas[r][c], t.filas[r][c])

\* C16's case: the CSV of a one-column table whose only column reads as a
\* number, next to the CSV of a two-column table with a coerced cell.
C16_Witness ==
    \E n, m \in DOMAIN csv_files :
        /\ Len(csv_files[n].df.cols) = 1
        /\ csv_files[n].df.filas # <<>>
        /\ csv_files[n].tabla.filas[1][1] = "12345"
        /\ Len(csv_files[m].df.cols) = 2
        /\ \E r \in 1..Len(csv_files[m].df.filas) :
              /\ csv_files[m].df.filas[r][2] = "n.d."
              /\ csv_files[m].tabla.filas[r][2] = "NaN"

\* The first-column values that mark a presentation row.
Boilerplate == {"Total", "TOTAL", "total", "Subtotal", "subtotal"}

\* C18: no CSV holds a row whose first column is "Total" (in any case) or
\* another boilerplate keyword.
C18_SinFilasBoilerplate ==
    \A n \in DOMAIN csv_files :
        \A r \in 1..Len(csv_files[n].tabla.filas) :
            csv_files[n].tabla.filas[r][1] \notin Boilerplate

\* The UTF-8 and the latin-1 encodings of one character.
Utf8De(c) ==
    CASE c = "Acirc"  -> <<"xC3", "x82">>
      [] c = "nbsp"   -> <<"xC2", "xA0">>
      [] c = "agrave" -> <<"xC3", "xA0">>
      [] OTHER        -> <<c>>

Latin1De(c) ==
    CASE c = "Acirc"  -> "xC2"
      [] c = "Atilde" -> "xC3"
      [] c = "c82"    -> "x82"
      [] c = "nbsp"   -> "xA0"
      [] c = "eacute" -> "xE9"
      [] OTHER        -> c

RECURSIVE utf8_encode(_)
utf8_encode(t) == IF t = <<>> THEN <<>> ELSE Utf8De(Head(t)) \o utf8_encode(Tail(t))

latin1_encode(t) == [k \in 1..Len(t) |-> Latin1De(t[k])]

\* t is b read as ASCII with the replacement character for every other byte.
AsciiConReemplazo(t, b) ==
    /\ Len(t) = Len(b)
    /\ \A k \in 1..Len(b) :
          IF b[k] \in BytesAltos THEN t[k] = "FFFD" ELSE t[k] = b[k]

\* C20: decode_html never raises, so that no 2xx response is turned into a
\* failed try by the decoding; its result encodes back to the body in UTF-8
\* when the body is valid UTF-8, otherwise it is the body read under the
\* apparent encoding when Python knows it, otherwise the body read as latin-1.
C20_DecodeNuncaFalla ==
    /\ validacion # ExcepcionAlDecodificar
    /\ validacion.hecha =>
          LET b   == validacion.resp.content
              enc == validacion.resp.apparent_encoding
              t   == validacion.html.decodificado
          IN IF utf8_valido(b) THEN utf8_encode(t) = b
             ELSE IF enc = "Ascii" THEN AsciiConReemplazo(t, b)
             ELSE latin1_encode(t) = b

\* C20's case: a body that is not UTF-8 under an apparent encoding Python
\* does not know, decoded as latin-1.
C20_Witness ==
    /\ validacion.hecha
    /\ ~utf8_valido(validacion.resp.content)
    /\ validacion.resp.apparent_encoding = "desconocido"
    /\ \E k \in 1..Len(validacion.html.decodificado) :
          validacion.html.decodificado[k] = "nbsp"

\* guardar_html_y_csv has just returned for link i - 1.
RecienPersistido == pc = "for" /\ i > 1 /\ html_base # None

\* C19: right after guardar_html_y_csv returned, calling it again with the
\* same html, nombre and directories (and the same file system) leaves the
\* files and their contents as they are; and when a batch is downloaded a
\* second time with the same answers, the output tree at the end of the
\* second run is the tree the first run left.
C19_PersistenciaIdempotente ==
    /\ RecienPersistido =>
          LET g == guardar_html_y_csv(html_base, nombres[i - 1], fs_fallo[i - 1],
                                      html_files, csv_files)
          IN g.htmls = html_files /\ g.csvs = csv_files
    /\ corrida = 2 /\ pc \in {"fin", "excepcion"} =>
          html_files = arbol1.htmls /\ csv_files = arbol1.csvs

\* C19's case: the second run of a batch of two is over; both links were
\* persisted again under the same name, the second after a failed try, and a
\* CSV is on disk.
C19_Witness ==
    /\ corrida = 2 /\ pc = "fin"
    /\ total = 2
    /\ gets[2] = 2
    /\ nombres[1] = nombres[2]
    /\ [link |-> 1, tipo |-> "csv"] \in escritos
    /\ [link |-> 2, tipo |-> "html"] \in escritos
    /\ DOMAIN csv_files # {}

(***************************************************************************)
(* Properties of the numeric rewrite of io_utils.py.                       *)
(***************************************************************************)
\* The digits of the number (n, k, m) in order, with "." before its decimals:
\* the number once every "." is deleted and the "," is replaced by ".".
Esperado(n, k, m) ==
    [q \in 1..(n + 3 * k + (IF m = 0 THEN 0 ELSE 1 + m)) |->
        IF q <= n + 3 * k THEN DigitoN(q)
        ELSE IF q = n + 3 * k + 1 THEN "."
        ELSE DigitoN(q - 1)]

\* C13: a number D{1,3}(.DDD)*(,D+)? standing alone in a text is rewritten as
\* a whole to its digits with "." for the decimal comma, the text around it
\* kept; a bare integer comes out unchanged.
C13_NumeroReescrito ==
    pc_num = "fin" /\ entrada.tipo = "numero" =>
        LET c == entrada.numero
        IN /\ salida.texto = entrada.pre \o Esperado(c[1], c[2], c[3]) \o entrada.suf
           /\ c[2] = 0 /\ c[3] = 0 => salida.texto = entrada.texto

\* C13's case: "1.234,56" gives "1234.56".
C13_Witness ==
    /\ pc_num = "fin"
    /\ entrada.texto = <<"1", ".", "2", "3", "4", ",", "5", "6">>
    /\ salida.texto = <<"1", "2", "3", "4", ".", "5", "6">>

EnCorrida(c) == EsPalabra(c) \/ c \in {".", ","}

EsLetra(c) == EsPalabra(c) /\ ~EsDigito(c) /\ c # "_"

RECURSIVE LargoCorrida(_)
LargoCorrida(s) ==
    IF s # <<>> /\ EnCorrida(Head(s)) THEN 1 + LargoCorrida(Tail(s)) ELSE 0

\* The maximal runs of a text, in order.
RECURSIVE Corridas(_)
Corridas(s) ==
    IF s = <<>> THEN <<>>
    ELSE IF ~EnCorrida(Head(s)) THEN Corridas(Tail(s))
    ELSE <<SubSeq(s, 1, LargoCorrida(s))>>
         \o Corridas(SubSeq(s, LargoCorrida(s) + 1, Len(s)))

\* C15: every maximal run of letters, digits, "_", "." and "," that holds a
\* letter is the same after _transformar_solo_numeros_en_texto as before.
C15_SinTocarMezclas ==
    pc_num = "fin" /\ entrada.tipo \in {"texto", "numero"} =>
        LET antes   == Corridas(entrada.texto)
            despues == Corridas(salida.texto)
        IN /\ Len(despues) = Len(antes)
           /\ \A j \in 1..Len(antes) :
                 (\E q \in 1..Len(antes[j]) : EsLetra(antes[j][q])) =>
                     despues[j] = antes[j]

\* C17: the rewrite leaves the text of header cells and of titles as it was:
\* only the text of data cells is converted.
C17_SoloCeldasDeDatos ==
    pc_num = "fin" /\ entrada.tipo = "html" =>
        \A j \in 1..Len(entrada.soup) :
            entrada.soup[j].clase # "Tag" /\ entrada.soup[j].name \in {"th", "h3"} =>
                salida.soup[j].texto = entrada.soup[j].texto

(***************************************************************************)
(* Properties of descargar_precios_if_anio.                                *)
(***************************************************************************)
Fechas == 1..total_dias

\* C6: never more than max_workers executions of _descargar_dia_worker at
\* once, and never more than one GET of descargar_y_guardar_cuadros in flight.
C6_LimiteDeConcurrencia ==
    /\ Cardinality(EnCurso) <= max_workers
    /\ enVuelo <= 1

\* C6's case: a full pool of at least two threads with a job waiting.
C6_Witness ==
    /\ prog = "precios"
    /\ max_workers >= 2
    /\ Cardinality(EnCurso) = max_workers
    /\ cola # <<>>

\* The worker of date d met an exception: session.get raised, or a file
\* system call of _persistir_y_extraer did.
ConExcepcion(d) ==
    /\ estado[d] = "hecho"
    /\ \/ archivo[d].status = -1
       \/ archivo[d].status = 200 /\ archivo[d].fallo # "ninguno"

Fallidas(ds) == {d \in ds : resultado[d] # "True"}

\* C7: an exception in the worker of one date is caught and counted as one
\* failure for that date only: its future holds False, errores counts each
\* drained failure once, the orchestrator is never left without a step before
\* it returns, and at the return every date has run to completion.
C7_ExcepcionAislada ==
    /\ \A d \in Fechas : ConExcepcion(d) => resultado[d] = "False"
    /\ errores = Cardinality(Fallidas(contados))
    /\ prog = "precios" /\ pc_main # "fin" => ENABLED NextPrecios
    /\ pc_main = "fin" =>
          /\ \A d \in Fechas : estado[d] = "hecho"
          /\ errores = Cardinality(Fallidas(Fechas))

\* C7's case: the run has returned, one date failed on an exception and a
\* date submitted after it was downloaded and extracted.
C7_Witness ==
    /\ pc_main = "fin"
    /\ \E d, e \in Fechas :
          /\ d < e
          /\ ConExcepcion(d)
          /\ resultado[e] = "True"

\* C8: the summary is emitted only once every date job is done, and then
\* every date has been counted exactly once: exitos + errores = total_dias;
\* at every moment the counters add up to the futures drained so far.
C8_ResumenCompleto ==
    /\ exitos + errores = Cardinality(contados)
    /\ resumen.emitido =>
          /\ \A d \in Fechas : estado[d] = "hecho"
          /\ contados = Fechas
          /\ resumen.total = total_dias
          /\ resumen.exitos + resumen.errores = resumen.total
          /\ resumen.exitos = Cardinality(Fechas \ Fallidas(Fechas))

\* C8's case: a summary over the largest year with successes and failures.
C8_Witness ==
    /\ resumen.emitido
    /\ total_dias = MaxFechas
    /\ resumen.exitos >= 1
    /\ resumen.errores >= 1

\* The dates whose worker writes the file `name` into the txt_dir of month m.
Escritores(m, name) ==
    {d \in Fechas :
        /\ mes(d) = m
        /\ archivo[d].status = 200
        /\ archivo[d].fallo = "ninguno"
        /\ ~archivo[d].corrupto
        /\ \E k \in 1..Len(archivo[d].miembros) :
              /\ ~MiembroInseguro(archivo[d].miembros[k])
              /\ Ruta(archivo[d].miembros[k]) = name}

\* C9: with the answer to every date fixed, the files on disk after the run
\* do not depend on the order in which the workers complete: every extracted
\* file holds what the run with one worker (the dates in order) leaves in it.
C9_OrdenIndiferente ==
    pc_main = "fin" =>
        \A key \in DOMAIN txts :
            \A d \in Escritores(key[1], key[2]) : d <= txts[key]

(***************************************************************************)
(* Naming of the persisted files: C21 to C23.                              *)
(***************************************************************************)
\* Link k has gone through the naming and persistence step of its iteration.
Nombrado(k) ==
    /\ html_base # None
    /\ html_base.de = k
    /\ i > k \/ pc = "excepcion"

\* C21: the name under which link k is persisted is the slug of the text of
\* the first h3 of its payload when there is an h3 and its slug is not
\* empty, and cuadro_0k otherwise; it is never the empty string.
C21_NombreDelCuadro ==
    \A k \in Links :
        Nombrado(k) =>
            /\ nombres[k] # <<>>
            /\ nombres[k] =
                 IF /\ html_base.h3.hay
                    /\ limpiar_nombre(html_base.h3.texto, MaxLenNombre) # <<>>
                 THEN limpiar_nombre(html_base.h3.texto, MaxLenNombre)
                 ELSE cuadro_fallback(k)

\* C21's case: the first link was named after its title, the second has an
\* h3 whose slug is empty and was named by its position.
C21_Witness ==
    /\ total >= 2
    /\ Nombrado(2)
    /\ html_base.h3.hay
    /\ nombres[2] = cuadro_fallback(2)
    /\ nombres[1] = <<"a", "c", "t", "i", "v", "o", "s">>

\* A call of limpiar_nombre has returned.
NombreLimpio == prog = "nombre" /\ pc_num = "fin"

\* The title without its accents: entities resolved, outer whitespace
\* stripped, decomposed, and only the ASCII characters kept.
SinAcentos(t) == quitar(nfkd(strip(unescape(t), Espacios \cup {"nbsp"})), NoAscii)

Recortado(s, n) == SubSeq(s, 1, Min(Len(s), n))

\* s from its first word character on.
RECURSIVE DesdePalabra(_)
DesdePalabra(s) ==
    IF s = <<>> \/ EsPalabra(Head(s)) THEN s ELSE DesdePalabra(Tail(s))

\* Every maximal run of non-word characters between two word characters
\* becomes one underscore; `dentro` says a word character came before.
RECURSIVE RunsPorGuionBajo(_, _)
RunsPorGuionBajo(s, dentro) ==
    IF s = <<>> THEN <<>>
    ELSE IF EsPalabra(Head(s))
         THEN <<lower_char(Head(s))>> \o RunsPorGuionBajo(Tail(s), TRUE)
         ELSE IF dentro /\ DesdePalabra(s) # <<>>
              THEN <<"_">> \o RunsPorGuionBajo(DesdePalabra(s), TRUE)
              ELSE RunsPorGuionBajo(DesdePalabra(s), dentro)

\* C22, as stated: limpiar_nombre strips accents, lowercases, replaces every
\* maximal run of non-word characters (whitespace or punctuation alike)
\* between two word characters by exactly one underscore, and caps the result
\* at max_len characters.
C22_TodoRunPorGuionBajo ==
    NombreLimpio =>
        salida.texto =
            Recortado(RunsPorGuionBajo(SinAcentos(entrada.texto), FALSE),
                      entrada.max_len)

\* The characters limpiar_nombre keeps as they are, and those it turns into
\* underscores.
Conservado(c) == (EsPalabra(c) /\ c # "_") \/ c = "-"

Separador(c) == c \in Espacios \cup {"_"}

\* The kept characters of s, lowercased, with one underscore wherever a
\* separator stood before a kept character; every other character is dropped.
RECURSIVE Unido(_, _)
Unido(s, pendiente) ==
    IF s = <<>> THEN <<>>
    ELSE IF Conservado(Head(s))
         THEN (IF pendiente THEN <<"_">> ELSE <<>>)
              \o <<lower_char(Head(s))>> \o Unido(Tail(s), FALSE)
         ELSE Unido(Tail(s), pendiente \/ Separador(Head(s)))

\* C22, amended: limpiar_nombre strips accents, deletes every character that
\* is neither a word character, whitespace nor a hyphen (punctuation leaves
\* no underscore, a hyphen stays), puts exactly one underscore for every
\* maximal run of whitespace and underscores that precedes a kept character,
\* lowercases, caps the result at max_len characters and then strips the
\* underscores at both ends.
C22_Slug ==
    NombreLimpio =>
        salida.texto =
            strip(Recortado(Unido(SinAcentos(entrada.texto), FALSE),
                            entrada.max_len), {"_"})

\* C22's case: a title whose words are separated by whitespace and
\* punctuation, slugified with the default max_len.
C22_Witness ==
    /\ NombreLimpio
    /\ entrada.texto = <<"A", " ", "&", "a", "m", "p", ";", " ", "B">>
    /\ entrada.max_len = MaxLenNombre
    /\ salida.texto = <<"a", "_", "b">>

\* The characters of a file name that stays inside its directory: a-z, 0-9,
\* the underscore and the hyphen.
CaracteresSeguros ==
    {"a", "b", "c", "d", "e", "f", "g", "h", "i", "j", "k", "l", "m", "n", "o",
     "p", "q", "r", "s", "t", "u", "v", "w", "x", "y", "z",
     "0", "1", "2", "3", "4", "5", "6", "7", "8", "9", "_", "-"}

\* C23: for every text, limpiar_nombre returns at most max_len characters,
\* all of them among a-z, 0-9, "_" and "-" (so no path separator and no dot),
\* with no underscore at either end and no two underscores in a row.
C23_NombreSeguro ==
    NombreLimpio =>
        LET r == salida.texto
        IN /\ Len(r) <= entrada.max_len
           /\ \A k \in 1..Len(r) : r[k] \in CaracteresSeguros
           /\ r # <<>> => r[1] # "_" /\ r[Len(r)] # "_"
           /\ \A k \in 1..(Len(r) - 1) : ~(r[k] = "_" /\ r[k + 1] = "_")

\* C23's case: a title that climbs out of the directory, made safe.
C23_Witness ==
    /\ NombreLimpio
    /\ entrada.texto = <<".", ".", "/", "a">>
    /\ salida.texto = <<"a">>

(***************************************************************************)
(* The retry loop and the batch: C24 to C27.                               *)
(***************************************************************************)
\* The failed tries in a sequence of outcomes.
Fallidos(h) == Cardinality({j \in 1..Len(h) : h[j] # "valido"})

\* C24: exactly one sleep follows every failed try, whether a transport
\* error or an invalid payload, and none follows a successful try: a link
\* that succeeds on try k has k - 1 sleeps, a link that exhausts its tries
\* has MAX_REINTENTOS sleeps, the last of them after its final try and before
\* the link is skipped and the next one starts.
C24_UnSleepPorFallo ==
    \A k \in Links :
        /\ NoEmpezado(k) => sleeps[k] = 0
        /\ EnBucle(k) =>
              sleeps[k] = Fallidos(historial) - (IF pc = "sleep" THEN 1 ELSE 0)
        /\ BucleTerminado(k) =>
              sleeps[k] = IF primer_valido[k] = 0 THEN MAX_REINTENTOS
                          ELSE primer_valido[k] - 1
        /\ k \in omitidos => sleeps[k] = MAX_REINTENTOS

\* C24's case: the first link exhausted its tries on errors and invalid
\* payloads, the second succeeded on its second try.
C24_Witness ==
    /\ pc = "fin" /\ total = 2
    /\ omitidos = {1} /\ sleeps[1] = MAX_REINTENTOS
    /\ primer_valido[2] = 2 /\ sleeps[2] = 1

RECURSIVE Suma(_, _)
Suma(f, n) == IF n = 0 THEN 0 ELSE f[n] + Suma(f, n - 1)

\* A file system call failed while a link was persisted.
FalloFs == \E k \in Links : fs_fallo[k] \in {"makedirs", "open", "write"}

\* C25: when every GET returns or raises within its timeout and the file
\* system is writable, the function returns for every batch and every
\* behaviour of the server; by then every link is in exactly one terminal
\* state, persisted or skipped, and at most total * MAX_REINTENTOS GETs were
\* issued.
C25_Termina ==
    /\ <>(pc = "fin" \/ FalloFs)
    /\ [](pc = "fin" /\ ~FalloFs =>
            /\ \A k \in Links : (k \in omitidos) # (k \in ConHtmlEscrito)
            /\ Suma(gets, total) <= total * MAX_REINTENTOS)

\* C25's case: the largest batch has returned, with a link skipped after
\* MAX_REINTENTOS tries and a link persisted.
C25_Witness ==
    /\ pc = "fin" /\ ~FalloFs
    /\ total = MaxLinks
    /\ omitidos # {} /\ ConHtmlEscrito # {}
    /\ \E k \in omitidos : gets[k] = MAX_REINTENTOS

\* C26: within one batch every successfully fetched link keeps its own
\* files: when the batch returns, the raw files on disk are as many as the
\* links that yielded a valid payload, and each of those links still has its
\* payload in its file.
C26_CadaLinkConSuArchivo ==
    pc = "fin" /\ SinFalloFs =>
        /\ Cardinality(DOMAIN html_files) = Cardinality(Links \ F)
        /\ \A k \in Links \ F :
              /\ nombres[k] \in DOMAIN html_files
              /\ html_files[nombres[k]].html.de = k

\* C27: the payload persisted for a link was obtained by a GET to that link
\* in one of its own tries, and that try was a valid one: a payload of an
\* earlier link is never written for a later link whose tries all failed, and
\* a payload of a failed try is never written.
C27_PayloadPropio ==
    /\ pc = "tras_reintentos" /\ html_base # None =>
          /\ html_base.de = i
          /\ primer_valido[i] # 0
          /\ EstructuralmenteValido(html_base)
    /\ \A k \in Links :
          /\ primer_valido[k] = 0 /\ BucleTerminado(k) =>
                \A e \in escritos : e.link # k
          /\ Nombrado(k) /\ k \in ConHtmlEscrito =>
                html_files[nombres[k]].html = html_base
    /\ \A n \in DOMAIN html_files :
          LET h == html_files[n].html
          IN /\ h.de \in ConHtmlEscrito
             /\ primer_valido[h.de] # 0
             /\ EstructuralmenteValido(h)

\* C27's case: the first link was persisted, the second got only errors and
\* invalid payloads and was skipped: the only file is the first link's.
C27_Witness ==
    /\ pc = "fin" /\ total = 2
    /\ ConHtmlEscrito = {1} /\ omitidos = {2}
    /\ \A n \in DOMAIN html_files : html_files[n].html.de = 1
    /\ historial = <<"error", "invalido", "invalido">>

(***************************************************************************)
(* The worker's result and the extraction: C28 and C29.                    *)
(***************************************************************************)
\* The archive of date d was downloaded and its content extracted.
Extraido(d) ==
    /\ estado[d] = "hecho"
    /\ archivo[d].status = 200
    /\ ~archivo[d].corrupto
    /\ archivo[d].fallo = "ninguno"

\* C28: _descargar_dia_worker returns True only when the day's file was
\* downloaded (status 200) and processed, and False in every other case: a
\* 404, another status, a network exception, or a failure while persisting
\* or extracting the archive, a corrupt ZIP included; exitos in the summary
\* counts only the days whose archive content was extracted.
C28_TrueSoloSiExtraido ==
    /\ \A d \in Fechas :
          estado[d] = "hecho" =>
              (resultado[d] = "True" <=> Extraido(d))
    /\ resumen.emitido =>
          resumen.exitos = Cardinality({d \in Fechas : Extraido(d)})

\* The file or directory at `ruta` is below txt_dir.
BajoTxtDir(ruta) ==
    /\ ruta # <<>>
    /\ ruta[1] # "/"
    /\ \A k \in 1..Len(ruta) : ruta[k] # ".."

\* _persistir_y_extraer has gone through every member of the archive of d
\* or has left the loop on an exception.
BucleDeMiembrosTerminado(d) ==
    /\ estado[d] = "hecho"
    /\ archivo[d].status = 200
    /\ ~archivo[d].corrupto
    /\ archivo[d].fallo # "write_bytes"

\* C29: _persistir_y_extraer never writes outside txt_dir: every member whose
\* name starts with "/" or contains ".." is skipped, every other member of
\* the archive is written below txt_dir, and the ZIP is saved under zip_dir
\* before any member is extracted, so that it is kept when the archive is
\* corrupt.
C29_MiembrosBajoTxtDir ==
    /\ \A key \in DOMAIN txts : BajoTxtDir(key[2])
    /\ \A d \in Fechas :
          /\ paso[d] >= 1 => d \in zips
          /\ estado[d] = "hecho" /\ archivo[d].status = 200 /\ archivo[d].corrupto
                => d \in zips
          /\ BucleDeMiembrosTerminado(d) =>
                \A k \in 1..Len(archivo[d].miembros) :
                    LET member == archivo[d].miembros[k]
                    IN IF MiembroInseguro(member)
                       THEN <<mes(d), Ruta(member)>> \notin DOMAIN txts
                       ELSE EsArchivo(mes(d), Ruta(member))

(***************************************************************************)
(* The audit and the downloaders: C30.                                     *)
(***************************************************************************)
\* C30: for each audited dataset and every period, the directory in which
\* auditar_anio counts the CSV files is the directory into which that
\* dataset's downloader, run with its default base directory, writes them:
\* after a download that persists k distinctly named CSV files for a period
\* into an empty data tree, the audit of the period's year reports DISCO = k
\* for it.
C30_DiscoCuentaLoDescargado ==
    pc_aud = "fin" /\ descarga.auditado = descarga.anio =>
        reporte[descarga.mes] = Cardinality(descarga.csvs)

====
